---------------------------- MODULE Spec2Model ----------------------------
(***************************************************************************)
(* A model of the sigalign alignment core.                                 *)
(*                                                                         *)
(*   Spec        the anchor pipeline of src/src/alignment/anchor.rs:       *)
(*               AnchorGroup::new (the initial state), then one step per   *)
(*               call of Anchor::alignment (hind pass, fore pass) and one  *)
(*               step for AnchorGroup::get_result.                         *)
(*   SpecDwfa    DropoffWaveFront::new_with_align of                       *)
(*               src/src/core/extending/dwfa.rs: one step for the first    *)
(*               components, one for each score of the loop.               *)
(*   SpecLocate  PatternFinder::locate_in_record_search_range: one step    *)
(*               for each sorted location, one for each probe of the       *)
(*               binary search.                                            *)
(*   SpecKmer    Aligner::kmer_calculation against the alignments of a     *)
(*               given length, built one operation at a time.              *)
(*   SpecNew     AnchorGroup::new step by step: the pattern scan, the      *)
(*               estimation, the evaluation and the check points.          *)
(*   SpecChk     the same steps for a pattern size of 1.                   *)
(*   SpecMirror  Aligner::perform_with_sequence on a reference and a query *)
(*               and on both reversed.                                     *)
(*   SpecCutoffs Aligner::perform_with_sequence of two aligners, the       *)
(*               cutoff of the second at least as tight.                   *)
(*                                                                         *)
(* Sequences are TLA+ sequences of one-letter strings.  A Rust index i     *)
(* into a Vec is the TLA+ index i + 1; anchor indices and query/reference  *)
(* positions keep their 0-based Rust values.                               *)
(*                                                                         *)
(* The cutoff's score_per_length is an f64 in the source.  The model keeps *)
(* it as the fraction num / den with a power-of-two denominator, so that   *)
(* every float comparison penalty / length <= score_per_length of the      *)
(* source is the integer comparison penalty * den <= num * length.         *)
(***************************************************************************)
EXTENDS Integers, Sequences, FiniteSets, TLC

VARIABLES
    aligner,    \* the Aligner: penalties, cutoff, kmer, emp_kmer
    ref_seq,    \* AnchorGroup.ref_seq
    qry_seq,    \* AnchorGroup.qry_seq
    anchors,    \* AnchorGroup.anchors
    pc,         \* position of Aligner::perform_with_sequence
    idx,        \* loop index of AnchorGroup::alignment
    get_minimum_penalty,    \* the argument get_result was called with
    result,     \* value returned by AnchorGroup::get_result
    abort,      \* "" or the reason the call panicked
    dwfa,       \* a DropoffWaveFront under construction (SpecDwfa)
    finder,     \* a call of locate_in_record_search_range (SpecLocate)
    kmer_case,    \* a pattern size and an alignment (SpecKmer)
    group_new,    \* a call of AnchorGroup::new in progress (SpecNew)
    calls   \* two calls of perform_with_sequence (SpecMirror)

pipeline_vars == <<aligner, ref_seq, qry_seq, anchors, pc, idx,
                   get_minimum_penalty, result, abort>>

vars == <<aligner, ref_seq, qry_seq, anchors, pc, idx, get_minimum_penalty,
          result, abort, dwfa, finder, kmer_case,
          group_new,
          calls>>

\* The value of the variables a specification does not use.
Unused == [status |-> "unused"]

---------------------------------------------------------------------------
(* Bounds of the model and the parameters of the Aligner.                  *)

MinRefLen == 6
MaxRefLen == 7
MinQryLen == 7
MaxQryLen == 7

Alphabet == {"A", "C"}

\* The references start with this letter.
RefFirst == "A"

\* The arguments of Aligner::new the model is run with: penalties (x, o, e),
\* score_per_length = num / den and minimum_length.
AlignerArgs ==
    { [x |-> 1, o |-> 0, e |-> 1, num |-> 5, den |-> 16, minimum_length |-> 4,
       using_cached_wf |-> c] : c \in BOOLEAN }

---------------------------------------------------------------------------
(* Helpers on sequences.                                                   *)

Min(a, b) == IF a <= b THEN a ELSE b
Max(a, b) == IF a >= b THEN a ELSE b
Abs(a) == IF a >= 0 THEN a ELSE -a

\* The Rust slice s[from..to] (0-based, half-open).
Slice(s, from, to) == [i \in 1..(to - from) |-> s[from + i]]

Reverse(s) == [i \in 1..Len(s) |-> s[Len(s) + 1 - i]]

Repeat(v, n) == [i \in 1..n |-> v]

Count(s, v) == Cardinality({i \in 1..Len(s) : s[i] = v})

SeqsOfLen(S, lo, hi) == UNION {[1..n -> S] : n \in lo..hi}

---------------------------------------------------------------------------
(* src/src/alignment.rs: EmpKmer::new, Aligner::kmer_calculation,          *)
(* Aligner::new.                                                           *)

EmpKmerNew(x, o, e) ==
    IF x <= o + e
    THEN [odd |-> x,
          even |-> IF x * 2 <= o + (e * 2) THEN x ELSE o + (e * 2) - x]
    ELSE [odd |-> o + e, even |-> e]

\* ((minimum_length + 2) / (2 * i) - 1).ceil(), the division being exact in
\* the source (f64): ceil(a / b) - 1 for positive a, b.
KmerSizeAt(minimum_length, i) ==
    ((minimum_length + 2 + 2 * i - 1) \div (2 * i)) - 1

\* The loop of kmer_calculation from iteration i on.  The exit test
\*   i * (odd + even) > score_per_length * 2 * ((i + 1) * kmer_size - 1)
\* is multiplied by the denominator of score_per_length.
RECURSIVE KmerLoop(_, _, _, _, _)
KmerLoop(num, den, minimum_length, emp_kmer, i) ==
    LET kmer_size == KmerSizeAt(minimum_length, i)
    IN  IF i * (emp_kmer.odd + emp_kmer.even) * den
              > num * 2 * ((i + 1) * kmer_size - 1)
        THEN kmer_size
        ELSE KmerLoop(num, den, minimum_length, emp_kmer, i + 1)

kmer_calculation(num, den, minimum_length, emp_kmer) ==
    KmerLoop(num, den, minimum_length, emp_kmer, 1)

AlignerNew(a) ==
    LET emp_kmer == EmpKmerNew(a.x, a.o, a.e)
    IN  [x |-> a.x, o |-> a.o, e |-> a.e,
         num |-> a.num, den |-> a.den, minimum_length |-> a.minimum_length,
         kmer |-> kmer_calculation(a.num, a.den, a.minimum_length, emp_kmer),
         emp_kmer |-> emp_kmer, using_cached_wf |-> a.using_cached_wf]

---------------------------------------------------------------------------
(* src/src/alignment.rs: enum Operation.  Only the clips carry a length.   *)

Match == [op |-> "Match", len |-> 0]
Subst == [op |-> "Subst", len |-> 0]
Ins == [op |-> "Ins", len |-> 0]
Del == [op |-> "Del", len |-> 0]
RefClip(n) == [op |-> "RefClip", len |-> n]
QryClip(n) == [op |-> "QryClip", len |-> n]

---------------------------------------------------------------------------
(* The FM-index of the reference: index.search_backward(pattern).locate()  *)
(* gives the start of every occurrence of the pattern, in the order of the *)
(* suffix array (the suffixes in lexicographic order, a proper prefix      *)
(* before the longer suffix).                                              *)

Code(c) == CASE c = "A" -> 1 [] c = "C" -> 2 [] c = "G" -> 3 [] OTHER -> 4

\* The suffix of text at 0-based position a sorts before the one at b.
RECURSIVE SuffixLess(_, _, _)
SuffixLess(text, a, b) ==
    IF b >= Len(text) THEN FALSE
    ELSE IF a >= Len(text) THEN TRUE
    ELSE IF text[a + 1] # text[b + 1] THEN Code(text[a + 1]) < Code(text[b + 1])
    ELSE SuffixLess(text, a + 1, b + 1)

Occurrences(text, pattern) ==
    {p \in 0..(Len(text) - Len(pattern)) :
        \A j \in 1..Len(pattern) : text[p + j] = pattern[j]}

locate(text, pattern) ==
    LET occ == Occurrences(text, pattern)
        rank(p) == Cardinality({q \in occ : SuffixLess(text, q, p)})
    IN  [n \in 1..Cardinality(occ) |-> CHOOSE p \in occ : rank(p) = n - 1]

---------------------------------------------------------------------------
(* src/src/alignment/anchor.rs: the data of an Anchor.                     *)
(*                                                                         *)
(*   state     "Empty" | "Estimated" | "Exact" | "Dropped"                 *)
(*   emp       <<fore, hind>> EmpBlocks of the Estimated state             *)
(*   fore      Option<AlignmentBlock> of the Exact state                   *)
(*   hind      AlignmentBlock of the Exact state                           *)
(*   check_points  <<fore, hind>> lists of anchor indices                  *)
(* Fields a state does not carry hold NoBlock / NoEmp.                     *)

EmpBlockNew(penalty, length) == [penalty |-> penalty, length |-> length]
NoEmp == EmpBlockNew(0, 0)

NoBlock == [kind |-> "None", operations |-> <<>>, index |-> 0,
            reverse_index |-> 0, penalty |-> 0]
Own(operations, penalty) ==
    [kind |-> "Own", operations |-> operations, index |-> 0,
     reverse_index |-> 0, penalty |-> penalty]
Ref(index, reverse_index, penalty) ==
    [kind |-> "Ref", operations |-> <<>>, index |-> index,
     reverse_index |-> reverse_index, penalty |-> penalty]

\* wf_cache: None, or the wave front inherited from the alignment of the
\* flank block of anchor from.
NoCache == [some |-> FALSE, block |-> "None", from |-> 0]
SomeCache(block_type, from) == [some |-> TRUE, block |-> block_type, from |-> from]

AnchorNew(ref_pos, qry_pos, kmer) ==
    [position |-> <<ref_pos, qry_pos>>, size |-> kmer, state |-> "Empty",
     emp |-> <<NoEmp, NoEmp>>, fore |-> NoBlock, hind |-> NoBlock,
     check_points |-> << <<>>, <<>> >>, wf_cache |-> NoCache,
     connected |-> {}]

impeccable_extension(anchor, kmer) ==
    [anchor EXCEPT !.size = anchor.size + kmer]

\* to_dropped leaving the anchor as it is.
to_dropped_without_effect(anchor) ==
    anchor

to_dropped(anchor) ==
    [anchor EXCEPT !.state = "Dropped", !.emp = <<NoEmp, NoEmp>>,
                   !.fore = NoBlock, !.hind = NoBlock]

InSeq(s, v) == \E i \in 1..Len(s) : s[i] = v

---------------------------------------------------------------------------
(* AnchorGroup::new, step (1): one iteration of the pattern scan.  st is   *)
(* the loop state: anchors_cache (cache_some, cache), anchors_preset and   *)
(* anchor_existence.                                                       *)

ScanInit ==
    [cache_some |-> FALSE, cache |-> <<>>, preset |-> <<>>, existence |-> <<>>]

\* The iteration without the impeccable extension: the anchors of the cache
\* are pushed as they are and every position makes a new anchor.
ScanStepWithoutExtension(st, i, text, qry, kmer) ==
    LET qry_position == i * kmer
        pattern == Slice(qry, qry_position, qry_position + kmer)
        positions == locate(text, pattern)
    IN  [st EXCEPT
            !.preset = st.preset \o st.cache,
            !.cache_some = Len(positions) # 0,
            !.cache = [n \in 1..Len(positions) |->
                         AnchorNew(positions[n], i * kmer, kmer)],
            !.existence = Append(st.existence, st.cache_some)]

ScanStep(st, i, text, qry, kmer) ==
    LET qry_position == i * kmer
        pattern == Slice(qry, qry_position, qry_position + kmer)
        positions == locate(text, pattern)
        ie_check(anchor) == InSeq(positions, anchor.position[1] + anchor.size)
        ie_positions == {anchor.position[1] + anchor.size :
                            anchor \in {st.cache[n] : n \in 1..Len(st.cache)}}
        extended == SelectSeq(st.cache, ie_check)
        kept == SelectSeq(st.cache, LAMBDA anchor : ~ie_check(anchor))
        fresh == SelectSeq(positions, LAMBDA position : position \notin ie_positions)
    IN  IF st.cache_some
        THEN IF Len(positions) = 0
             THEN [st EXCEPT !.preset = st.preset \o st.cache,
                             !.cache_some = FALSE, !.cache = <<>>,
                             !.existence = Append(st.existence, TRUE)]
             ELSE [st EXCEPT
                     !.preset = st.preset \o kept,
                     !.cache =
                        [n \in 1..Len(extended) |->
                            impeccable_extension(extended[n], kmer)]
                        \o [n \in 1..Len(fresh) |->
                            AnchorNew(fresh[n], i * kmer, kmer)],
                     !.existence = Append(st.existence, TRUE)]
        ELSE IF Len(positions) # 0
             THEN [st EXCEPT
                     !.cache_some = TRUE,
                     !.cache = [n \in 1..Len(positions) |->
                                  AnchorNew(positions[n], i * kmer, kmer)],
                     !.existence = Append(st.existence, FALSE)]
             ELSE [st EXCEPT !.existence = Append(st.existence, FALSE)]

RECURSIVE ScanLoop(_, _, _, _, _, _)
ScanLoop(st, i, search_count, text, qry, kmer) ==
    IF i >= search_count THEN st
    ELSE ScanLoop(ScanStep(st, i, text, qry, kmer), i + 1, search_count,
                  text, qry, kmer)

\* "push last anchors" recording an anchor whether or not there is one.
ScanFinishAlwaysExists(st) ==
    [st EXCEPT !.preset = st.preset \o st.cache,
               !.existence = Append(st.existence, TRUE)]

\* "push last anchors"
ScanFinish(st) ==
    IF st.cache_some
    THEN [st EXCEPT !.preset = st.preset \o st.cache,
                    !.existence = Append(st.existence, TRUE)]
    ELSE [st EXCEPT !.existence = Append(st.existence, FALSE)]

---------------------------------------------------------------------------
(* Anchor::estimate_from_empty and Anchor::is_emp_state_valid.             *)

\* The fold over a slice of anchor_existence: <<odd_block_count,
\* even_block_count>> after the elements i.. of exist.
RECURSIVE CountBlocks(_, _, _, _, _)
CountBlocks(exist, i, previous_block_is_odd, odd_block_count, even_block_count) ==
    IF i > Len(exist) THEN <<odd_block_count, even_block_count>>
    ELSE IF ~exist[i]
         THEN IF previous_block_is_odd
              THEN CountBlocks(exist, i + 1, FALSE,
                               odd_block_count, even_block_count + 1)
              ELSE CountBlocks(exist, i + 1, TRUE,
                               odd_block_count + 1, even_block_count)
         ELSE CountBlocks(exist, i + 1, FALSE, odd_block_count, even_block_count)

EmpOfBlocks(exist, block_len, emp_kmer) ==
    LET c == CountBlocks(exist, 1, FALSE, 0, 0)
    IN  EmpBlockNew(c[1] * emp_kmer.odd + c[2] * emp_kmer.even,
                    block_len + c[1] + c[2])

estimate_from_empty(anchor, ref_len, qry_len, kmer, anchor_existence, emp_kmer) ==
    LET block_index == anchor.position[2] \div kmer
        fore_emp_block ==
            LET block_len == Min(anchor.position[1], anchor.position[2])
                quot == block_len \div kmer
            IN  EmpOfBlocks(
                    Reverse(Slice(anchor_existence,
                                  block_index - quot + 1, block_index + 1)),
                    block_len, emp_kmer)
        hind_emp_block ==
            LET hind_block_index == block_index + (anchor.size \div kmer)
                ref_block_len == ref_len - (anchor.position[1] + anchor.size)
                qry_block_len == qry_len - (anchor.position[2] + anchor.size)
                block_len == Min(ref_block_len, qry_block_len)
                quot == block_len \div kmer
            IN  EmpOfBlocks(
                    Slice(anchor_existence,
                          hind_block_index + 1, hind_block_index + quot + 1),
                    block_len, emp_kmer)
    IN  [anchor EXCEPT !.state = "Estimated",
                       !.emp = <<fore_emp_block, hind_emp_block>>]

\* penalty / length <= score_per_length, for length > 0.
WithinSpl(penalty, length, cutoff) == penalty * cutoff.den <= cutoff.num * length

is_emp_state_valid(anchor, cutoff) ==
    LET length == anchor.emp[1].length + anchor.emp[2].length + anchor.size
    IN  /\ length >= cutoff.minimum_length
        /\ WithinSpl(anchor.emp[1].penalty + anchor.emp[2].penalty, length, cutoff)

---------------------------------------------------------------------------
(* Check points: Anchor::can_be_connected, both_estimated,                 *)
(* create_check_points (with extend_each_check_points).                    *)

can_be_connected(first, second, scores, cutoff) ==
    LET ref_gap == second.position[1] - first.position[1] - first.size
        qry_gap == second.position[2] - first.position[2] - first.size
        fore_emp == IF first.state = "Estimated" THEN first.emp[1] ELSE NoEmp
        hind_emp == IF second.state = "Estimated" THEN second.emp[2] ELSE NoEmp
        length == fore_emp.length + hind_emp.length
                    + Max(ref_gap, qry_gap) + first.size + second.size
        indel == Abs(ref_gap - qry_gap)
        penalty == fore_emp.penalty + hind_emp.penalty
                    + (IF indel > 0 THEN scores.o + indel * scores.e ELSE 0)
    IN  /\ ref_gap >= 0
        /\ qry_gap >= 0
        /\ WithinSpl(penalty, length, cutoff)
        /\ length >= cutoff.minimum_length

both_estimated(anchor_1, anchor_2) ==
    anchor_1.state = "Estimated" /\ anchor_2.state = "Estimated"

\* The sorted sequence of a set of naturals.
RECURSIVE SortedSeq(_)
SortedSeq(S) ==
    IF S = {} THEN <<>>
    ELSE LET m == CHOOSE v \in S : \A w \in S : v <= w
         IN  <<m>> \o SortedSeq(S \ {m})

\* The double loop pushes index_2 onto check_points.1 of index_1 and index_1
\* onto check_points.0 of index_2, index_1 and index_2 both ascending: each
\* list ends up in ascending order.  Anchor indices are 0-based.
create_check_points(anchs, scores, cutoff) ==
    LET linked(index_1, index_2) ==
            /\ both_estimated(anchs[index_1 + 1], anchs[index_2 + 1])
            /\ can_be_connected(anchs[index_1 + 1], anchs[index_2 + 1],
                                scores, cutoff)
        anchor_count == Len(anchs)
    IN  [n \in 1..anchor_count |->
            [anchs[n] EXCEPT !.check_points =
                << SortedSeq({index_1 \in 0..(n - 2) : linked(index_1, n - 1)}),
                   SortedSeq({index_2 \in n..(anchor_count - 1) :
                                 linked(n - 1, index_2)}) >>]]

\* AnchorGroup::new: the anchors of the group, or none.
AnchorGroupNew(text, qry, al) ==
    LET ref_len == Len(text)
        qry_len == Len(qry)
        search_count == qry_len \div al.kmer
        scan == ScanFinish(ScanLoop(ScanInit, 0, search_count, text, qry, al.kmer))
        estimated ==
            [n \in 1..Len(scan.preset) |->
                estimate_from_empty(scan.preset[n], ref_len, qry_len, al.kmer,
                                    scan.existence, al.emp_kmer)]
        evaluated ==
            [n \in 1..Len(estimated) |->
                IF ~is_emp_state_valid(estimated[n], al)
                THEN to_dropped(estimated[n]) ELSE estimated[n]]
    IN  IF ~InSeq(scan.existence, TRUE)
        THEN [some |-> FALSE, anchors |-> <<>>]
        ELSE [some |-> TRUE, anchors |-> create_check_points(evaluated, al, al)]

---------------------------------------------------------------------------
(* Wave fronts.  src/src/core/extending/dwfa.rs: the backtrace markers,    *)
(* Component, the max_k schedule of allocated_empty and                    *)
(* consecutive_match_forward.                                              *)

EMPTY == 0
FROM_M == 1
FROM_I == 2
FROM_D == 3
START == 4

Component(fr, bt) == [fr |-> fr, bt |-> bt]
ComponentEmpty == Component(0, EMPTY)

\* allocated_empty: max_k is 0 for the first o + e scores, then grows by one
\* every e scores.
max_k_of_score(score, penalties) ==
    IF score < penalties.o + penalties.e THEN 0
    ELSE ((score - penalties.o - penalties.e) \div penalties.e) + 1

\* For 0 <= v <= Len(qry) and 0 <= h <= Len(text).
RECURSIVE consecutive_match_forward(_, _, _, _)
consecutive_match_forward(text, qry, v, h) ==
    IF v < Len(qry) /\ h < Len(text) /\ qry[v + 1] = text[h + 1]
    THEN 1 + consecutive_match_forward(text, qry, v + 1, h + 1)
    ELSE 0

---------------------------------------------------------------------------
(* The dropout wave-front alignment the anchors call (module dropout_wfa): *)
(* dropout_wf_align and wf_backtrace.  A wave front wf is a sequence, the  *)
(* element s + 1 being the components of score s: a function from the      *)
(* diagonals -max_k..max_k to <<M, I, D>>.                                 *)

WfGet(wf, score, k, c) ==
    IF score < 0 THEN ComponentEmpty
    ELSE IF k \notin DOMAIN wf[score + 1] THEN ComponentEmpty
    ELSE wf[score + 1][k][c]

WfFirst(text, qry) ==
    [k \in {0} |->
        <<Component(consecutive_match_forward(text, qry, 0, 0), START),
          ComponentEmpty, ComponentEmpty>>]

\* The recurrence for one score, before the extension along the diagonals.
WfComponents(wf, score, scores) ==
    LET max_k == max_k_of_score(score, scores)
    IN  [k \in (-max_k)..max_k |->
            LET m_to_i == WfGet(wf, score - scores.o - scores.e, k - 1, 1)
                i_to_i == WfGet(wf, score - scores.e, k - 1, 2)
                m_to_d == WfGet(wf, score - scores.o - scores.e, k + 1, 1)
                d_to_d == WfGet(wf, score - scores.e, k + 1, 3)
                m_to_m == WfGet(wf, score - scores.x, k, 1)
                i1 == IF m_to_i.bt # EMPTY
                      THEN Component(m_to_i.fr + 1, FROM_M) ELSE ComponentEmpty
                i2 == IF i_to_i.bt # EMPTY
                         /\ (i1.bt = EMPTY \/ i_to_i.fr + 1 > i1.fr)
                      THEN Component(i_to_i.fr + 1, FROM_I) ELSE i1
                d1 == IF m_to_d.bt # EMPTY
                      THEN Component(m_to_d.fr, FROM_M) ELSE ComponentEmpty
                d2 == IF d_to_d.bt # EMPTY
                         /\ (d1.bt = EMPTY \/ d_to_d.fr > d1.fr)
                      THEN Component(d_to_d.fr, FROM_D) ELSE d1
                m1 == IF m_to_m.bt # EMPTY
                      THEN Component(m_to_m.fr + 1, FROM_M) ELSE ComponentEmpty
                m2 == IF i2.bt # EMPTY /\ (m1.bt = EMPTY \/ i2.fr >= m1.fr)
                      THEN Component(i2.fr, FROM_I) ELSE m1
                m3 == IF d2.bt # EMPTY /\ (m2.bt = EMPTY \/ d2.fr >= m2.fr)
                      THEN Component(d2.fr, FROM_D) ELSE m2
            IN  <<m3, i2, d2>>]

\* The greedy extension of every M component along its diagonal.
WfExtend(components, text, qry) ==
    [k \in DOMAIN components |->
        IF components[k][1].bt # EMPTY
        THEN [components[k] EXCEPT ![1].fr =
                 @ + consecutive_match_forward(text, qry, @ - k, @)]
        ELSE components[k]]

\* The diagonals on which the wave reached an end of either sequence.
WfReached(components, text, qry) ==
    {k \in DOMAIN components :
        /\ components[k][1].bt # EMPTY
        /\ \/ components[k][1].fr >= Len(text)
           \/ components[k][1].fr - k >= Len(qry)}

SetMin(S) == CHOOSE v \in S : \A w \in S : v <= w

\* The scores from score on, while score <= spare_num / den.
RECURSIVE WfLoop(_, _, _, _, _, _, _)
WfLoop(wf, score, text, qry, scores, spare_num, den) ==
    IF score * den > spare_num
    THEN [ok |-> FALSE, wf |-> wf, last_k |-> 0]
    ELSE LET components ==
                IF score = 0 THEN WfFirst(text, qry)
                ELSE WfExtend(WfComponents(wf, score, scores), text, qry)
             reached == WfReached(components, text, qry)
         IN  IF reached # {}
             THEN [ok |-> TRUE, wf |-> Append(wf, components),
                   last_k |-> SetMin(reached)]
             ELSE WfLoop(Append(wf, components), score + 1, text, qry,
                         scores, spare_num, den)

dropout_wf_align(qry, text, scores, spare_num, den) ==
    WfLoop(<<>>, 0, text, qry, scores, spare_num, den)

\* wf_backtrace from (score, k, component c) towards the start.  ops holds
\* the operations met so far (last operation of the flank first); chkps are
\* the tuples <<anchor index, size, k, fr>> of wf_backtrace_check_points.
\* A check point is crossed when a run of matches on its diagonal covers the
\* whole of its anchor, fr - size .. fr; it is then recorded with the number
\* of operations behind it and the score of the run.
RECURSIVE WfBacktraceFrom(_, _, _, _, _, _, _, _)
WfBacktraceFrom(wf, scores, chkps, score, k, c, ops, connected) ==
    LET component == wf[score + 1][k][c]
    IN  IF c = 1
        THEN LET start_fr ==
                    IF component.bt = START THEN 0
                    ELSE IF component.bt = FROM_M
                         THEN wf[score - scores.x + 1][k][1].fr + 1
                    ELSE IF component.bt = FROM_I THEN wf[score + 1][k][2].fr
                    ELSE wf[score + 1][k][3].fr
                 crossed ==
                    {n \in 1..Len(chkps) :
                        /\ chkps[n][3] = k
                        /\ start_fr <= chkps[n][4] - chkps[n][2]
                        /\ chkps[n][4] <= component.fr}
                 found ==
                    {[index |-> chkps[n][1],
                      reverse_index |-> Len(ops) + component.fr - chkps[n][4],
                      penalty |-> score] : n \in crossed}
                 run == ops \o Repeat(Match, component.fr - start_fr)
             IN  IF component.bt = START
                 THEN [operations |-> Reverse(run),
                       connected_backtraces |-> connected \cup found]
                 ELSE IF component.bt = FROM_M
                 THEN WfBacktraceFrom(wf, scores, chkps, score - scores.x, k, 1,
                                      Append(run, Subst), connected \cup found)
                 ELSE WfBacktraceFrom(wf, scores, chkps, score, k,
                                      IF component.bt = FROM_I THEN 2 ELSE 3,
                                      run, connected \cup found)
        ELSE LET op == IF c = 2 THEN Ins ELSE Del
                 pre_k == IF c = 2 THEN k - 1 ELSE k + 1
             IN  IF component.bt = FROM_M
                 THEN WfBacktraceFrom(wf, scores, chkps,
                                      score - scores.o - scores.e, pre_k, 1,
                                      Append(ops, op), connected)
                 ELSE WfBacktraceFrom(wf, scores, chkps, score - scores.e,
                                      pre_k, c, Append(ops, op), connected)

wf_backtrace(wf, scores, last_k, chkps) ==
    WfBacktraceFrom(wf, scores, chkps, Len(wf) - 1, last_k, 1, <<>>, {})

\* wf_check_inheritable: the check points <<anchor index, size, k, fr,
\* ext_fr>> the dropped wave front reached: a run of matches on the
\* diagonal of the check point covers its anchor.
WfStartFr(wf, scores, score, k) ==
    LET component == wf[score + 1][k][1]
    IN  IF component.bt = START THEN 0
        ELSE IF component.bt = FROM_M
             THEN wf[score - scores.x + 1][k][1].fr + 1
        ELSE IF component.bt = FROM_I THEN wf[score + 1][k][2].fr
        ELSE wf[score + 1][k][3].fr

wf_check_inheritable(wf, scores, chkps) ==
    {chkps[n][1] : n \in
        {n \in 1..Len(chkps) :
            \E score \in 0..(Len(wf) - 1) :
                /\ chkps[n][3] \in DOMAIN wf[score + 1]
                /\ wf[score + 1][chkps[n][3]][1].bt # EMPTY
                /\ WfStartFr(wf, scores, score, chkps[n][3])
                      <= chkps[n][4] - chkps[n][2]
                /\ chkps[n][4] <= wf[score + 1][chkps[n][3]][1].fr}}

---------------------------------------------------------------------------
(* Anchor::alignment and what it calls.  block_type is "Hind" or "Fore".   *)

\* The tuples <<anchor index, size, ref_gap - qry_gap, ref_gap>> of the check
\* points of the flank, the gaps being measured from the current anchor to
\* the far end of the check point's anchor.
wf_backtrace_check_points(anchs, current_index, block_type) ==
    LET current_anchor == anchs[current_index + 1]
        check_points == IF block_type = "Fore" THEN current_anchor.check_points[1]
                        ELSE current_anchor.check_points[2]
        gaps(anchor) ==
            IF block_type = "Fore"
            THEN <<current_anchor.position[1] - anchor.position[1],
                   current_anchor.position[2] - anchor.position[2]>>
            ELSE <<anchor.position[1] + anchor.size
                     - current_anchor.position[1] - current_anchor.size,
                   anchor.position[2] + anchor.size
                     - current_anchor.position[2] - current_anchor.size>>
    IN  [n \in 1..Len(check_points) |->
            LET anchor == anchs[check_points[n] + 1]
                g == gaps(anchor)
            IN  <<check_points[n], anchor.size, g[1] - g[2], g[1]>>]

\* wf_inheritance_check_points without the test of the state of the check
\* point.
wf_inheritance_check_points_in_any_state(anchs, current_index, block_type) ==
    wf_backtrace_check_points(anchs, current_index, block_type)

\* The check points a dropped wave front may be inherited by: those still
\* Estimated (hind) or Exact without a fore block (fore).
wf_inheritance_check_points(anchs, current_index, block_type) ==
    SelectSeq(wf_backtrace_check_points(anchs, current_index, block_type),
              LAMBDA chkp :
                  LET anchor == anchs[chkp[1] + 1]
                  IN  IF block_type = "Fore"
                      THEN anchor.state = "Exact" /\ anchor.fore.kind = "None"
                      ELSE anchor.state = "Estimated")

\* The loop over the inheritable check points in ascending anchor index:
\* the set of anchors that receive the wave front.
RECURSIVE InheritLoop(_, _, _, _, _)
InheritLoop(anchs, inheritable, block_type, checked_anchors_index, cached) ==
    IF inheritable = {} THEN cached
    ELSE LET anchor_index == SetMin(inheritable)
             anchor == anchs[anchor_index + 1]
             check_points == IF block_type = "Fore" THEN anchor.check_points[1]
                             ELSE anchor.check_points[2]
         IN  IF anchor_index \notin checked_anchors_index
             THEN InheritLoop(anchs, inheritable \ {anchor_index}, block_type,
                              checked_anchors_index \cup {anchor_index}
                                \cup {check_points[n] : n \in 1..Len(check_points)},
                              cached \cup {anchor_index})
             ELSE InheritLoop(anchs, inheritable \ {anchor_index}, block_type,
                              checked_anchors_index, cached)

\* The hind step going on for an anchor that is not Estimated.
OtherBlockWithoutReturn(anchor, block_type) ==
    IF block_type = "Hind"
    THEN [skip |-> FALSE, p_other |-> anchor.emp[1].penalty,
          l_other |-> anchor.emp[1].length]
    ELSE IF anchor.state = "Exact" /\ anchor.fore.kind = "None"
         THEN [skip |-> FALSE, p_other |-> anchor.hind.penalty,
               l_other |-> IF anchor.hind.kind = "Own"
                           THEN Len(anchor.hind.operations)
                           ELSE anchor.hind.reverse_index]
         ELSE [skip |-> TRUE, p_other |-> 0, l_other |-> 0]

\* The penalty and the length of the other flank; the step returns at once
\* (skip) unless the anchor is Estimated (hind) or Exact without a fore
\* block (fore).
OtherBlock(anchor, block_type) ==
    IF block_type = "Hind"
    THEN IF anchor.state = "Estimated"
         THEN [skip |-> FALSE, p_other |-> anchor.emp[1].penalty,
               l_other |-> anchor.emp[1].length]
         ELSE [skip |-> TRUE, p_other |-> 0, l_other |-> 0]
    ELSE IF anchor.state = "Exact" /\ anchor.fore.kind = "None"
         THEN [skip |-> FALSE, p_other |-> anchor.hind.penalty,
               l_other |-> IF anchor.hind.kind = "Own"
                           THEN Len(anchor.hind.operations)
                           ELSE anchor.hind.reverse_index]
         ELSE [skip |-> TRUE, p_other |-> 0, l_other |-> 0]

\* The two sequences of the flank: what follows the anchor (hind), or what
\* precedes it, reversed (fore).
FlankSeqs(anchor, text, qry, block_type) ==
    IF block_type = "Hind"
    THEN [text |-> Slice(text, anchor.position[1] + anchor.size, Len(text)),
          qry |-> Slice(qry, anchor.position[2] + anchor.size, Len(qry))]
    ELSE [text |-> Reverse(Slice(text, 0, anchor.position[1])),
          qry |-> Reverse(Slice(qry, 0, anchor.position[2]))]

\* panalty_spare * den without the length of the other flank.
PenaltySpareNumWithoutOtherLength(anchor, flank, other, cutoff) ==
    cutoff.num * (Min(Len(flank.text), Len(flank.qry)) + anchor.size)
        - other.p_other * cutoff.den

\* panalty_spare * den: score_per_length * (min(...) + size + l_other) - p_other.
PenaltySpareNum(anchor, flank, other, cutoff) ==
    cutoff.num * (Min(Len(flank.text), Len(flank.qry)) + anchor.size + other.l_other)
        - other.p_other * cutoff.den

\* CASE 1 with the fore update of a connected anchor made in any state, as
\* the hind update is.
AlignmentOkInAnyState(anchs, current_anchor_index, block_type, wf, last_k, scores) ==
    LET check_points_values ==
            wf_backtrace_check_points(anchs, current_anchor_index, block_type)
        bt == wf_backtrace(wf, scores, last_k, check_points_values)
        operations == IF block_type = "Fore" THEN Reverse(bt.operations)
                      ELSE bt.operations
        valid_anchors_index == {c.index : c \in bt.connected_backtraces}
        current_anchor_score == Len(wf) - 1
        own == Own(operations, Len(wf) - 1)
        backtrace_of(anchor_index) ==
            CHOOSE c \in bt.connected_backtraces : c.index = anchor_index
        ref_of(anchor_index) ==
            Ref(current_anchor_index, backtrace_of(anchor_index).reverse_index,
                current_anchor_score - backtrace_of(anchor_index).penalty)
        valid_check_points(anchor) ==
            LET check_points == IF block_type = "Fore" THEN anchor.check_points[1]
                                ELSE anchor.check_points[2]
            IN  {check_points[n] : n \in 1..Len(check_points)}
                    \cap valid_anchors_index
    IN  [n \in 1..Len(anchs) |->
            IF n - 1 = current_anchor_index
            THEN IF block_type = "Hind"
                 THEN [anchs[n] EXCEPT
                         !.state = "Exact", !.emp = <<NoEmp, NoEmp>>,
                         !.fore = NoBlock, !.hind = own,
                         !.wf_cache = NoCache,
                         !.connected = @ \cup valid_anchors_index]
                 ELSE [anchs[n] EXCEPT
                         !.fore = own,
                         !.wf_cache = NoCache,
                         !.connected = @ \cup valid_anchors_index]
            ELSE IF n - 1 \in valid_anchors_index
            THEN IF block_type = "Hind"
                 THEN [anchs[n] EXCEPT
                         !.state = "Exact", !.emp = <<NoEmp, NoEmp>>,
                         !.fore = NoBlock, !.hind = ref_of(n - 1),
                         !.wf_cache = NoCache,
                         !.connected = @ \cup valid_check_points(anchs[n])]
                 ELSE [anchs[n] EXCEPT
                         !.state = "Exact", !.fore = ref_of(n - 1),
                         !.wf_cache = NoCache,
                         !.connected = @ \cup valid_check_points(anchs[n])]
            ELSE anchs[n]]

\* CASE 1: wf not dropped.
AlignmentOk(anchs, current_anchor_index, block_type, wf, last_k, scores) ==
    LET check_points_values ==
            wf_backtrace_check_points(anchs, current_anchor_index, block_type)
        bt == wf_backtrace(wf, scores, last_k, check_points_values)
        operations == IF block_type = "Fore" THEN Reverse(bt.operations)
                      ELSE bt.operations
        valid_anchors_index == {c.index : c \in bt.connected_backtraces}
        current_anchor_score == Len(wf) - 1
        own == Own(operations, Len(wf) - 1)
        backtrace_of(anchor_index) ==
            CHOOSE c \in bt.connected_backtraces : c.index = anchor_index
        ref_of(anchor_index) ==
            Ref(current_anchor_index, backtrace_of(anchor_index).reverse_index,
                current_anchor_score - backtrace_of(anchor_index).penalty)
        valid_check_points(anchor) ==
            LET check_points == IF block_type = "Fore" THEN anchor.check_points[1]
                                ELSE anchor.check_points[2]
            IN  {check_points[n] : n \in 1..Len(check_points)}
                    \cap valid_anchors_index
    IN  [n \in 1..Len(anchs) |->
            IF n - 1 = current_anchor_index
            THEN IF block_type = "Hind"
                 THEN [anchs[n] EXCEPT
                         !.state = "Exact", !.emp = <<NoEmp, NoEmp>>,
                         !.fore = NoBlock, !.hind = own,
                         !.wf_cache = NoCache,
                         !.connected = @ \cup valid_anchors_index]
                 ELSE [anchs[n] EXCEPT
                         !.fore = own,
                         !.wf_cache = NoCache,
                         !.connected = @ \cup valid_anchors_index]
            ELSE IF n - 1 \in valid_anchors_index
            THEN IF block_type = "Hind"
                 THEN [anchs[n] EXCEPT
                         !.state = "Exact", !.emp = <<NoEmp, NoEmp>>,
                         !.fore = NoBlock, !.hind = ref_of(n - 1),
                         !.wf_cache = NoCache,
                         !.connected = @ \cup valid_check_points(anchs[n])]
                 ELSE [anchs[n] EXCEPT
                         !.fore = IF anchs[n].state = "Exact"
                                  THEN ref_of(n - 1) ELSE @,
                         !.wf_cache = NoCache,
                         !.connected = @ \cup valid_check_points(anchs[n])]
            ELSE anchs[n]]

\* CASE 2: wf dropped.
AlignmentErr(anchs, current_anchor_index, block_type, wf, scores, using_cached_wf) ==
    LET inheritable ==
            wf_check_inheritable(wf, scores,
                wf_inheritance_check_points(anchs, current_anchor_index, block_type))
        cached == IF using_cached_wf
                  THEN InheritLoop(anchs, inheritable, block_type, {}, {})
                  ELSE {}
    IN  [n \in 1..Len(anchs) |->
            IF n - 1 = current_anchor_index
            THEN [to_dropped(anchs[n]) EXCEPT !.wf_cache = NoCache]
            ELSE IF n - 1 \in cached
            THEN [anchs[n] EXCEPT
                    !.wf_cache = SomeCache(block_type, current_anchor_index)]
            ELSE anchs[n]]

\* Anchor::alignment: the anchors after the step for current_anchor_index.
\* An inherited wave front (wf_cache) continues to the result of the
\* alignment from the start of the flank.
\* "match alignment_res": CASE 1 or CASE 2.
AlignmentMatch(anchs, current_anchor_index, block_type, alignment_res, al) ==
    IF alignment_res.ok
    THEN AlignmentOk(anchs, current_anchor_index, block_type,
                     alignment_res.wf, alignment_res.last_k, al)
    ELSE AlignmentErr(anchs, current_anchor_index, block_type,
                      alignment_res.wf, al, al.using_cached_wf)

AnchorAlignment(anchs, current_anchor_index, text, qry, al, block_type) ==
    LET current_anchor == anchs[current_anchor_index + 1]
        other == OtherBlock(current_anchor, block_type)
        flank == FlankSeqs(current_anchor, text, qry, block_type)
    IN  IF other.skip THEN anchs
        ELSE AlignmentMatch(anchs, current_anchor_index, block_type,
                dropout_wf_align(flank.qry, flank.text, al,
                    PenaltySpareNum(current_anchor, flank, other, al), al.den), al)

---------------------------------------------------------------------------
(* Evaluation: Anchor::get_penalty_and_length, evaluate_exact_alignment,   *)
(* AlignmentBlock::aligned_length and clip_operation.                      *)

\* panic: fore_option.as_ref().unwrap() on an Exact anchor without a fore
\* block.
get_penalty_and_length(anchor) ==
    LET block_length(block) == IF block.kind = "Own" THEN Len(block.operations)
                               ELSE block.reverse_index
    IN  IF anchor.state = "Exact"
        THEN IF anchor.fore.kind = "None"
             THEN [panic |-> TRUE, penalty |-> 0, length |-> 0]
             ELSE [panic |-> FALSE,
                   penalty |-> anchor.fore.penalty + anchor.hind.penalty,
                   length |-> block_length(anchor.fore)
                                + block_length(anchor.hind) + anchor.size]
        ELSE [panic |-> FALSE, penalty |-> 0, length |-> anchor.size]

\* evaluate_exact_alignment without the test of the penalty per length.
evaluate_length_only(penalty, length, cutoff) ==
    length >= cutoff.minimum_length

evaluate_exact_alignment(penalty, length, cutoff) ==
    length >= cutoff.minimum_length /\ WithinSpl(penalty, length, cutoff)

\* aligned_length with the roles of Ins and Del exchanged.
aligned_length_exchanged(operations) ==
    <<Len(operations) - Count(operations, Ins),
      Len(operations) - Count(operations, Del)>>

\* <<reference length, query length>> a list of operations covers.
aligned_length(operations) ==
    LET ins == Count(operations, Ins)
        del == Count(operations, Del)
        len == Len(operations)
    IN  <<len - del, len - ins>>

\* clip_operation without the comparison of the two residuals: the clip is
\* always the reference residual.
clip_operation_of_reference(operations, ref_len, qry_len) ==
    LET aligned == aligned_length(operations)
        ref_left == ref_len - aligned[1]
        qry_left == qry_len - aligned[2]
    IN  [overflow |-> ref_left < 0 \/ qry_left < 0, clip |-> RefClip(ref_left)]

\* The clip of a flank whose sequences are ref_len and qry_len long; the
\* subtractions are on usize and overflow when the operations cover more
\* than the flank holds.
clip_operation(operations, ref_len, qry_len) ==
    LET aligned == aligned_length(operations)
        ref_left == ref_len - aligned[1]
        qry_left == qry_len - aligned[2]
    IN  IF ref_left < 0 \/ qry_left < 0
        THEN [overflow |-> TRUE, clip |-> RefClip(0)]
        ELSE IF ref_left >= qry_left
        THEN [overflow |-> FALSE, clip |-> RefClip(ref_left - qry_left)]
        ELSE [overflow |-> FALSE, clip |-> QryClip(qry_left - ref_left)]

---------------------------------------------------------------------------
(* Anchor::operations_and_penalty.  abort is "" when the operations are    *)
(* reconstructed, else the reason the call panics.                         *)

InvalidAnchor == "Trying to get result operations from invalid anchor."

\* BlockOperations taking, for a Ref, the penalty of the whole Own block it
\* names in place of the penalty the Ref holds.
BlockOperationsWholePenalty(anchs, block, block_type) ==
    IF block.kind = "Own"
    THEN [abort |-> "", operations |-> block.operations, penalty |-> block.penalty]
    ELSE LET anchor == anchs[block.index + 1]
             target == IF block_type = "Fore" THEN anchor.fore ELSE anchor.hind
         IN  IF anchor.state # "Exact" \/ target.kind # "Own"
             THEN [abort |-> InvalidAnchor, operations |-> <<>>, penalty |-> 0]
             ELSE IF block.reverse_index > Len(target.operations)
             THEN [abort |-> "slice index out of range",
                   operations |-> <<>>, penalty |-> 0]
             ELSE [abort |-> "",
                   operations |->
                      IF block_type = "Fore"
                      THEN Slice(target.operations, 0, block.reverse_index)
                      ELSE Slice(target.operations,
                                 Len(target.operations) - block.reverse_index,
                                 Len(target.operations)),
                   penalty |-> target.penalty]

\* The operations and the penalty of one flank, following a Ref to the Own
\* block of the anchor it names.
BlockOperations(anchs, block, block_type) ==
    IF block.kind = "Own"
    THEN [abort |-> "", operations |-> block.operations, penalty |-> block.penalty]
    ELSE LET anchor == anchs[block.index + 1]
             target == IF block_type = "Fore" THEN anchor.fore ELSE anchor.hind
         IN  IF anchor.state # "Exact" \/ target.kind # "Own"
             THEN [abort |-> InvalidAnchor, operations |-> <<>>, penalty |-> 0]
             ELSE IF block.reverse_index > Len(target.operations)
             THEN [abort |-> "slice index out of range",
                   operations |-> <<>>, penalty |-> 0]
             ELSE [abort |-> "",
                   operations |->
                      IF block_type = "Fore"
                      THEN Slice(target.operations, 0, block.reverse_index)
                      ELSE Slice(target.operations,
                                 Len(target.operations) - block.reverse_index,
                                 Len(target.operations)),
                   penalty |-> block.penalty]

operations_and_penalty(anchs, current_anchor_index, ref_len, qry_len) ==
    LET current_anchor == anchs[current_anchor_index + 1]
        fore == BlockOperations(anchs, current_anchor.fore, "Fore")
        hind == BlockOperations(anchs, current_anchor.hind, "Hind")
        fore_clip_operation ==
            clip_operation(fore.operations, current_anchor.position[1],
                           current_anchor.position[2])
        hind_clip_operation ==
            clip_operation(hind.operations,
                ref_len - current_anchor.position[1] - current_anchor.size,
                qry_len - current_anchor.position[2] - current_anchor.size)
        none == [anchor_index |-> current_anchor_index, abort |-> "",
                 operations |-> <<>>, penalty |-> 0]
    IN  IF current_anchor.state # "Exact"
        THEN [none EXCEPT !.abort = InvalidAnchor]
        ELSE IF current_anchor.fore.kind = "None"
        THEN [none EXCEPT !.abort = "unwrap on None"]
        ELSE IF fore.abort # "" THEN [none EXCEPT !.abort = fore.abort]
        ELSE IF hind.abort # "" THEN [none EXCEPT !.abort = hind.abort]
        ELSE IF fore_clip_operation.overflow \/ hind_clip_operation.overflow
        THEN [none EXCEPT !.abort = "subtract with overflow"]
        ELSE [anchor_index |-> current_anchor_index,
              abort |-> "",
              operations |->
                  <<fore_clip_operation.clip>> \o fore.operations
                    \o Repeat(Match, current_anchor.size)
                    \o hind.operations \o <<hind_clip_operation.clip>>,
              penalty |-> fore.penalty + hind.penalty]

---------------------------------------------------------------------------
(* Anchor::get_unique_symbols.  The loops run over a HashSet and a HashMap, *)
(* whose iteration order is not fixed: the orders are parameters.          *)

\* Step 2, "add extended anchors of connected", for one anchor:
\* anchor_symbols is updated in place.
ExtendSymbol(anchor_symbols, anchor_index) ==
    LET extended_symbol ==
            UNION {anchor_symbols[j] : j \in anchor_symbols[anchor_index]}
    IN  [anchor_symbols EXCEPT ![anchor_index] =
            @ \cup extended_symbol \cup {anchor_index}]

\* The loop of step 2 in every iteration order at once: loop_states holds
\* the symbol dictionaries that can have been built when the anchors of
\* remaining are still to come.
RECURSIVE ExtendSymbols(_)
ExtendSymbols(loop_states) ==
    IF \A st \in loop_states : st.remaining = {}
    THEN {st.anchor_symbols : st \in loop_states}
    ELSE ExtendSymbols(
            UNION {{[anchor_symbols |-> ExtendSymbol(st.anchor_symbols, anchor_index),
                     remaining |-> st.remaining \ {anchor_index}] :
                        anchor_index \in st.remaining} : st \in loop_states})

\* The symbol dictionaries steps 1 and 2 can build.
AnchorSymbols(anchs, valid_anchors_set) ==
    ExtendSymbols(
        {[anchor_symbols |->
            [anchor_index \in valid_anchors_set |->
                valid_anchors_set \cap anchs[anchor_index + 1].connected],
          remaining |-> valid_anchors_set]})

\* Step 3 without the comparison of symbols: every anchor is kept.
UniqueAnchorsKeepingAll(anchor_symbols) ==
    {DOMAIN anchor_symbols}

\* Step 3 keeps the first anchor met with each symbol: one anchor for each
\* symbol, which one depending on the order.
UniqueAnchors(anchor_symbols) ==
    {unique_anchor \in SUBSET (DOMAIN anchor_symbols) :
        \A anchor_index \in DOMAIN anchor_symbols :
            Cardinality({u \in unique_anchor :
                anchor_symbols[u] = anchor_symbols[anchor_index]}) = 1}

\* Every value get_unique_symbols can return.
get_unique_symbols(anchs, valid_anchors_set) ==
    UNION {UniqueAnchors(anchor_symbols) :
              anchor_symbols \in AnchorSymbols(anchs, valid_anchors_set)}

---------------------------------------------------------------------------
(* AnchorGroup::get_result, step (3): evaluation of the anchors.           *)

\* The loop of the get_minimum_penalty mode from anchor index i on.
RECURSIVE MinimumPenaltyLoop(_, _, _, _, _)
MinimumPenaltyLoop(anchs, cutoff, i, minimum_penalty, anchors_of_minimum_penalty) ==
    IF i >= Len(anchs) THEN anchors_of_minimum_penalty
    ELSE LET pl == get_penalty_and_length(anchs[i + 1])
         IN  IF ~evaluate_exact_alignment(pl.penalty, pl.length, cutoff)
             THEN MinimumPenaltyLoop(anchs, cutoff, i + 1, minimum_penalty,
                                     anchors_of_minimum_penalty)
             ELSE IF pl.penalty < minimum_penalty
             THEN MinimumPenaltyLoop(anchs, cutoff, i + 1, pl.penalty, {i})
             ELSE IF pl.penalty = minimum_penalty
             THEN MinimumPenaltyLoop(anchs, cutoff, i + 1, minimum_penalty,
                                     anchors_of_minimum_penalty \cup {i})
             ELSE MinimumPenaltyLoop(anchs, cutoff, i + 1, minimum_penalty,
                                     anchors_of_minimum_penalty)

\* The anchors after the evaluation: those that fail the cutoff are Dropped.
EvaluatedAnchors(anchs, cutoff) ==
    [n \in 1..Len(anchs) |->
        LET pl == get_penalty_and_length(anchs[n])
        IN  IF ~evaluate_exact_alignment(pl.penalty, pl.length, cutoff)
            THEN to_dropped(anchs[n]) ELSE anchs[n]]

\* The set handed to get_unique_symbols.
ValidAnchorsSet(anchs, evaluated, cutoff, mode) ==
    IF mode
    THEN MinimumPenaltyLoop(anchs, cutoff, 0,
                            get_penalty_and_length(anchs[1]).penalty, {})
    ELSE {anchor_index \in 0..(Len(evaluated) - 1) :
             evaluated[anchor_index + 1].state = "Exact"}

---------------------------------------------------------------------------
(* Spec: Aligner::perform_with_sequence on one reference and one query.    *)
(*   pc = "none"    AnchorGroup::new returned None                         *)
(*   pc = "hind"    in the hind loop of AnchorGroup::alignment, at idx      *)
(*   pc = "fore"    in the fore loop of AnchorGroup::alignment, at idx      *)
(*   pc = "result"  before AnchorGroup::get_result                         *)
(*   pc = "done"    get_result returned result                             *)
(*   pc = "panic"   get_result panicked with abort                         *)

Refs == {r \in SeqsOfLen(Alphabet, MinRefLen, MaxRefLen) : r[1] = RefFirst}
Qrys == SeqsOfLen(Alphabet, MinQryLen, MaxQryLen)

\* AnchorGroup::new reads the penalties, the cutoff and the pattern size of
\* the aligner, not using_cached_wf: the group is built once for both values.
Init ==
    \E r \in Refs, q \in Qrys,
       settings \in {[a EXCEPT !.using_cached_wf = FALSE] : a \in AlignerArgs} :
        \E group \in {AnchorGroupNew(r, q, AlignerNew(settings))},
           a \in {b \in AlignerArgs :
                    [b EXCEPT !.using_cached_wf = FALSE] = settings} :
            /\ aligner = AlignerNew(a)
            /\ ref_seq = r
            /\ qry_seq = q
            /\ anchors = group.anchors
            /\ pc = IF group.some THEN "hind" ELSE "none"
            /\ idx = 0
            /\ get_minimum_penalty = FALSE
            /\ result = {}
            /\ abort = ""
            /\ dwfa = Unused
            /\ finder = Unused
            /\ kmer_case = Unused
            /\ group_new = Unused
            /\ calls = Unused

\* The hind loop left after its first iteration.
AlignHindOnce ==
    /\ pc = "hind"
    /\ anchors' = AnchorAlignment(anchors, idx, ref_seq, qry_seq, aligner, "Hind")
    /\ pc' = "fore" /\ idx' = Len(anchors) - 1
    /\ UNCHANGED <<aligner, ref_seq, qry_seq, get_minimum_penalty, result, abort,
                   dwfa, finder, kmer_case, group_new, calls>>

\* One iteration of "(1) alignment hind".
AlignHind ==
    /\ pc = "hind"
    /\ anchors' = AnchorAlignment(anchors, idx, ref_seq, qry_seq, aligner, "Hind")
    /\ IF idx + 1 < Len(anchors)
       THEN pc' = "hind" /\ idx' = idx + 1
       ELSE pc' = "fore" /\ idx' = Len(anchors) - 1
    /\ UNCHANGED <<aligner, ref_seq, qry_seq, get_minimum_penalty, result, abort,
                   dwfa, finder, kmer_case, group_new, calls>>

\* One iteration of "(2) alignment fore".
AlignFore ==
    /\ pc = "fore"
    /\ anchors' = AnchorAlignment(anchors, idx, ref_seq, qry_seq, aligner, "Fore")
    /\ IF idx > 0
       THEN pc' = "fore" /\ idx' = idx - 1
       ELSE pc' = "result" /\ idx' = 0
    /\ UNCHANGED <<aligner, ref_seq, qry_seq, get_minimum_penalty, result, abort,
                   dwfa, finder, kmer_case, group_new, calls>>

\* AnchorGroup::get_result(get_minimum_penalty).
GetResult ==
    /\ pc = "result"
    /\ \E mode \in BOOLEAN, evaluated \in {EvaluatedAnchors(anchors, aligner)} :
        LET valid_anchors_set == ValidAnchorsSet(anchors, evaluated, aligner, mode)
        IN  /\ get_minimum_penalty' = mode
            /\ IF \E n \in 1..Len(anchors) : get_penalty_and_length(anchors[n]).panic
               THEN /\ pc' = "panic"
                    /\ abort' = "unwrap on None"
                    /\ result' = {}
                    /\ anchors' = anchors
               ELSE \E unique_anchors_index \in
                            get_unique_symbols(evaluated, valid_anchors_set) :
                    LET res == {operations_and_penalty(evaluated, anchor_index,
                                    Len(ref_seq), Len(qry_seq)) :
                                    anchor_index \in unique_anchors_index}
                        failed == {r \in res : r.abort # ""}
                    IN  /\ anchors' = evaluated
                        /\ IF failed # {}
                           THEN /\ pc' = "panic"
                                /\ abort' = (CHOOSE r \in failed : TRUE).abort
                                /\ result' = {}
                           ELSE /\ pc' = "done"
                                /\ abort' = ""
                                /\ result' = res
    /\ UNCHANGED <<aligner, ref_seq, qry_seq, idx, dwfa, finder, kmer_case,
                   group_new, calls>>

Next == AlignHind \/ AlignFore \/ GetResult

Spec == Init /\ [][Next]_vars

---------------------------------------------------------------------------
(* Properties of the steps of AnchorGroup::alignment.                      *)

\* One step of the pipeline keeps the order of the two loops: the hind
\* steps go up one anchor at a time, a fore step follows a hind step only
\* after the hind step of the last anchor and is then for the last anchor,
\* the fore steps go down one anchor at a time, no hind step follows a fore
\* step, and get_result follows the fore step of anchor 0.
StepOrder ==
    /\ (pc = "hind" /\ pc' = "hind") => idx' = idx + 1
    /\ (pc = "hind" /\ pc' # "hind") =>
            /\ pc' = "fore"
            /\ idx = Len(anchors) - 1
            /\ idx' = Len(anchors) - 1
    /\ (pc = "fore" /\ pc' = "fore") => idx' = idx - 1
    /\ (pc = "fore" /\ pc' # "fore") => (pc' = "result" /\ idx = 0)
    /\ pc' = "hind" => pc = "hind"

\* A step of Anchor::alignment that runs the wave front alignment changes
\* the current anchor (its flank is set, or the anchor is dropped); a step
\* that returns at once leaves every anchor as it is.  The step for a hind
\* flank returns at once unless the anchor is Estimated (it is Dropped, or
\* its hind flank holds an extension, Own or Ref); the step for a fore flank
\* returns at once unless the anchor is Exact without a fore extension.
\* After the hind flank of an anchor is done the anchor is never Estimated
\* again, and a fore extension of an Exact anchor is never taken away, so
\* no flank is aligned twice.
OwnStepOnlyOnce ==
    /\ (pc = "hind" /\ anchors[idx + 1].state # "Estimated") => anchors' = anchors
    /\ (pc = "fore" /\ ~(anchors[idx + 1].state = "Exact"
                            /\ anchors[idx + 1].fore.kind = "None"))
            => anchors' = anchors
    /\ \A n \in 1..Len(anchors) :
        /\ anchors[n].state # "Estimated" => anchors'[n].state # "Estimated"
        /\ (anchors[n].state = "Exact" /\ anchors[n].fore.kind # "None")
                => ~(anchors'[n].state = "Exact" /\ anchors'[n].fore.kind = "None")

\* C24: the wave front alignment is run at most once for an anchor and a
\* flank, never for a Dropped anchor and never for a flank that holds an
\* extension: the anchor's own step for a flank that another anchor's
\* backtrace set to Ref changes nothing.
C24_DwfaAtMostOnce == [][OwnStepOnlyOnce]_vars

\* The own hind step of an anchor whose hind flank was a Ref has been taken.
C24_Witness ==
    /\ pc = "hind"
    /\ idx >= 1
    /\ anchors[idx].state = "Exact"
    /\ anchors[idx].hind.kind = "Ref"

\* A Dropped anchor stays Dropped over one step.
DroppedStays ==
    \A n \in 1..Len(anchors) :
        anchors[n].state = "Dropped" => anchors'[n].state = "Dropped"

\* C27: an anchor that is Dropped, by the evaluation of AnchorGroup::new,
\* by a wave front that dropped out or by get_result, is Dropped after
\* every later step: neither its own hind or fore step nor the backtrace of
\* another anchor's step makes it Exact again.
C27_DroppedIsAbsorbing == [][DroppedStays]_vars

\* The fore step of an Exact anchor has set its own fore extension while
\* one of its left check points was a Dropped anchor.
C27_Witness ==
    /\ pc \in {"fore", "result"}
    /\ \E m \in 1..Len(anchors), n \in 1..Len(anchors) :
        /\ anchors[m].state = "Exact"
        /\ anchors[m].fore.kind = "Own"
        /\ InSeq(anchors[m].check_points[1], n - 1)
        /\ anchors[n].state = "Dropped"

\* The anchors of valid_anchors_set reached from the anchors of reached
\* along connected, those of reached included.
RECURSIVE ConnectedClosure(_, _, _)
ConnectedClosure(anchs, valid_anchors_set, reached) ==
    LET more == reached \cup
                  UNION {valid_anchors_set \cap anchs[j + 1].connected : j \in reached}
    IN  IF more = reached THEN reached
        ELSE ConnectedClosure(anchs, valid_anchors_set, more)

\* The symbol dictionary gives every valid anchor the closure of connected.
SymbolsAreClosures(anchs, valid_anchors_set, anchor_symbols) ==
    \A anchor_index \in valid_anchors_set :
        anchor_symbols[anchor_index]
            = ConnectedClosure(anchs, valid_anchors_set, {anchor_index})

\* One anchor is kept for each distinct closure.
OneForEachClosure(anchs, valid_anchors_set, unique_anchor) ==
    /\ unique_anchor \subseteq valid_anchors_set
    /\ \A anchor_index \in valid_anchors_set :
        Cardinality({u \in unique_anchor :
            ConnectedClosure(anchs, valid_anchors_set, {u})
                = ConnectedClosure(anchs, valid_anchors_set, {anchor_index})}) = 1

\* C25: when get_result calls get_unique_symbols, in either mode and in
\* every iteration order of its hash collections, the symbol of every valid
\* anchor is the transitive closure of connected within the valid anchors,
\* the anchor included, and the anchors returned are one for each distinct
\* closure.
C25_SymbolIsClosure ==
    pc = "result" =>
        \A mode \in BOOLEAN :
            LET evaluated == EvaluatedAnchors(anchors, aligner)
                valid_anchors_set ==
                    ValidAnchorsSet(anchors, evaluated, aligner, mode)
            IN  /\ \A anchor_symbols \in AnchorSymbols(evaluated, valid_anchors_set) :
                    SymbolsAreClosures(evaluated, valid_anchors_set, anchor_symbols)
                /\ \A unique_anchor \in
                            get_unique_symbols(evaluated, valid_anchors_set) :
                    OneForEachClosure(evaluated, valid_anchors_set, unique_anchor)

\* <<reference residual, query residual>> of one flank of an anchor of the
\* result: what the flank holds minus what the operations of its block cover.
FlankResidual(anchs, anchor_index, block_type) ==
    LET current_anchor == anchs[anchor_index + 1]
        block == IF block_type = "Fore" THEN current_anchor.fore
                 ELSE current_anchor.hind
        aligned == aligned_length(BlockOperations(anchs, block, block_type).operations)
        ref_len == IF block_type = "Fore" THEN current_anchor.position[1]
                   ELSE Len(ref_seq) - current_anchor.position[1] - current_anchor.size
        qry_len == IF block_type = "Fore" THEN current_anchor.position[2]
                   ELSE Len(qry_seq) - current_anchor.position[2] - current_anchor.size
    IN  <<ref_len - aligned[1], qry_len - aligned[2]>>

\* The clip the claim gives a flank with the residuals left.
WholeResidualClip(left) ==
    IF left[1] >= left[2] THEN RefClip(left[1]) ELSE QryClip(left[2])

\* The anchors get_result builds operations for, with both blocks readable.
ReportedAnchors(evaluated, valid_anchors_set) ==
    {anchor_index \in UNION get_unique_symbols(evaluated, valid_anchors_set) :
        /\ evaluated[anchor_index + 1].fore.kind # "None"
        /\ BlockOperations(evaluated, evaluated[anchor_index + 1].fore, "Fore").abort = ""
        /\ BlockOperations(evaluated, evaluated[anchor_index + 1].hind, "Hind").abort = ""}

\* C26: when get_result builds the operations of an anchor, in either mode,
\* neither residual of either flank is below 0, one of the two residuals of
\* each flank is 0, and the clip operations_and_penalty puts at each end is
\* RefClip of the whole reference residual when that is at least the query
\* residual and QryClip of the whole query residual otherwise.
C26_ClipIsWholeResidual ==
    pc = "result" =>
        \A mode \in BOOLEAN :
            LET evaluated == EvaluatedAnchors(anchors, aligner)
                valid_anchors_set ==
                    ValidAnchorsSet(anchors, evaluated, aligner, mode)
            IN  \A anchor_index \in ReportedAnchors(evaluated, valid_anchors_set) :
                    LET fore_left == FlankResidual(evaluated, anchor_index, "Fore")
                        hind_left == FlankResidual(evaluated, anchor_index, "Hind")
                        r == operations_and_penalty(evaluated, anchor_index,
                                                    Len(ref_seq), Len(qry_seq))
                    IN  /\ \A left \in {fore_left, hind_left} :
                            /\ left[1] >= 0 /\ left[2] >= 0
                            /\ left[1] = 0 \/ left[2] = 0
                        /\ r.abort = ""
                        /\ r.operations[1] = WholeResidualClip(fore_left)
                        /\ r.operations[Len(r.operations)]
                              = WholeResidualClip(hind_left)

\* get_result is about to report an anchor with a reference residual before
\* it and a query residual behind it, both flanks holding operations.
C26_Witness ==
    /\ pc = "result"
    /\ \E mode \in BOOLEAN :
        LET evaluated == EvaluatedAnchors(anchors, aligner)
            valid_anchors_set == ValidAnchorsSet(anchors, evaluated, aligner, mode)
        IN  \E anchor_index \in ReportedAnchors(evaluated, valid_anchors_set) :
                /\ FlankResidual(evaluated, anchor_index, "Fore")[1] > 0
                /\ FlankResidual(evaluated, anchor_index, "Hind")[2] > 0
                /\ BlockOperations(evaluated,
                        evaluated[anchor_index + 1].fore, "Fore").operations # <<>>
                /\ BlockOperations(evaluated,
                        evaluated[anchor_index + 1].hind, "Hind").operations # <<>>

\* A cached wave front waits for the own step of its anchor in the pass it
\* was cached in: the anchor is still to come in that pass, is in the state
\* in which the step does not return, and the cache is of the direction of
\* the pass.
CacheAwaitsOwnStep(n) ==
    \/ /\ pc = "hind"
       /\ anchors[n].wf_cache.block = "Hind"
       /\ n - 1 >= idx
       /\ anchors[n].wf_cache.from < n - 1
       /\ anchors[n].state = "Estimated"
    \/ /\ pc = "fore"
       /\ anchors[n].wf_cache.block = "Fore"
       /\ n - 1 <= idx
       /\ anchors[n].wf_cache.from > n - 1
       /\ anchors[n].state = "Exact"
       /\ anchors[n].fore.kind = "None"

\* A step of Anchor::alignment leaves no cache in the anchor it is for nor
\* in an anchor whose flank it sets to Ref.
CacheTakenOrCleared ==
    pc \in {"hind", "fore"} =>
        /\ anchors'[idx + 1].wf_cache = NoCache
        /\ \A n \in 1..Len(anchors) :
            \/ /\ pc = "hind"
               /\ anchors'[n].hind.kind = "Ref"
               /\ anchors[n].hind # anchors'[n].hind
            \/ /\ pc = "fore"
               /\ anchors'[n].fore.kind = "Ref"
               /\ anchors[n].fore # anchors'[n].fore
            => anchors'[n].wf_cache = NoCache

C28_Witness_Fore ==
    /\ pc = "fore"
    /\ anchors[idx + 1].wf_cache.some

\* The direction of the pass the pipeline is in.
PassBlockType == IF pc = "hind" THEN "Hind" ELSE "Fore"

\* The step about to be taken does not return early: it computes
\* panalty_spare and starts the wave front alignment.
StepStartsDwfa ==
    /\ pc \in {"hind", "fore"}
    /\ ~OtherBlock(anchors[idx + 1], PassBlockType).skip

\* panalty_spare * den of the step about to be taken.
StepPenaltySpareNum ==
    PenaltySpareNum(anchors[idx + 1],
        FlankSeqs(anchors[idx + 1], ref_seq, qry_seq, PassBlockType),
        OtherBlock(anchors[idx + 1], PassBlockType), aligner)

\* C30: whenever a step of Anchor::alignment starts the wave front
\* alignment of a flank, hind or fore, the spare penalty
\* score_per_length * (minimum remaining length + anchor size + length of
\* the other flank) - penalty of the other flank is not below 0.
C30_SparePenaltyNotNegative ==
    StepStartsDwfa => StepPenaltySpareNum >= 0

\* A fore step is about to start the wave front alignment of an anchor
\* whose hind flank is a Ref with a penalty.
C30_Witness ==
    /\ pc = "fore"
    /\ StepStartsDwfa
    /\ anchors[idx + 1].hind.kind = "Ref"
    /\ anchors[idx + 1].hind.penalty > 0

\* A hind step is about to start the wave front alignment of an anchor
\* whose estimated fore block has a penalty.
C30_Witness_Hind ==
    /\ pc = "hind"
    /\ StepStartsDwfa
    /\ anchors[idx + 1].emp[1].penalty > 0

\* C23: AnchorGroup::alignment starts with the hind step of anchor 0, and
\* every step keeps the order: the hind flank of anchor i is processed
\* after those of all j < i, the fore flank of anchor i after the hind
\* flanks of all anchors and the fore flanks of all j > i.
C23_HindThenForeOrder ==
    /\ pc = "hind" => idx = 0
    /\ [][StepOrder]_vars

\* The fore loop has passed at least one anchor of a group of three or more.
C23_Witness ==
    /\ pc = "fore"
    /\ Len(anchors) >= 3
    /\ idx < Len(anchors) - 1

---------------------------------------------------------------------------
(* Properties of the alignments get_result returns.                        *)

Returned == IF pc = "done" THEN result ELSE {}

\* The operations of a returned alignment between its two clips.
Body(r) == Slice(r.operations, 1, Len(r.operations) - 1)

\* What the leading and the trailing clip of kind op account for.
ClipLen(r, op) ==
    (IF r.operations[1].op = op THEN r.operations[1].len ELSE 0)
    + (IF r.operations[Len(r.operations)].op = op
       THEN r.operations[Len(r.operations)].len ELSE 0)

\* The penalty of a list of operations: x for a Subst, o + e for the first
\* and e for each further operation of a run of Ins or of Del.
RecomputedPenalty(operations, scores) ==
    LET cost(i) ==
            IF operations[i] = Subst THEN scores.x
            ELSE IF operations[i] \in {Ins, Del}
            THEN IF i > 1 /\ operations[i - 1] = operations[i]
                 THEN scores.e ELSE scores.o + scores.e
            ELSE 0
        sum[i \in 0..Len(operations)] == IF i = 0 THEN 0 ELSE sum[i - 1] + cost(i)
    IN  sum[Len(operations)]

\* C1: every returned alignment, in both settings of get_minimum_penalty,
\* meets the cutoff: penalty / length <= score_per_length and
\* length >= minimum_length, length being the number of operations of the two
\* flanks plus the anchor size.
C1_CutoffCompliance ==
    \A r \in Returned :
        /\ r.penalty * aligner.den <= aligner.num * Len(Body(r))
        /\ Len(Body(r)) >= aligner.minimum_length

\* An alignment with a non-zero penalty is returned in each mode.
C1_Witness_MinMode ==
    /\ get_minimum_penalty
    /\ \E r \in Returned : r.penalty > 0

C1_Witness ==
    /\ ~get_minimum_penalty
    /\ \E r \in Returned : r.penalty > 0 /\ Len(Body(r)) > aligner.minimum_length

C3_Witness_Subst ==
    \E r \in Returned : Count(Body(r), Subst) > 0

\* The reference range and the query range of the alignment returned for
\* an anchor: from the anchor, each flank reaching as far as its operations
\* cover.
Ranges(anchor_index) ==
    LET anchor == anchors[anchor_index + 1]
        fore == aligned_length(BlockOperations(anchors, anchor.fore, "Fore").operations)
        hind == aligned_length(BlockOperations(anchors, anchor.hind, "Hind").operations)
    IN  [ref |-> <<anchor.position[1] - fore[1],
                   anchor.position[1] + anchor.size + hind[1]>>,
         qry |-> <<anchor.position[2] - fore[2],
                   anchor.position[2] + anchor.size + hind[2]>>]

\* C4: no two alignments returned by one call are identical in reference
\* range, query range and operations.
C4_NoDuplicates ==
    \A r1, r2 \in Returned :
        (/\ Ranges(r1.anchor_index) = Ranges(r2.anchor_index)
         /\ r1.operations = r2.operations)
            => r1.anchor_index = r2.anchor_index

\* Several alignments are returned, and fewer than there are Exact anchors:
\* the symbols of some anchors coincided.
C4_Witness ==
    /\ ~get_minimum_penalty
    /\ Cardinality(Returned) >= 2
    /\ Cardinality(Returned)
         < Cardinality({n \in 1..Len(anchors) : anchors[n].state = "Exact"})

\* The anchors that are Exact and meet the cutoff, and among them those of
\* the least total penalty.
ExactMeetingCutoff(anchs, cutoff) ==
    {anchor_index \in 0..(Len(anchs) - 1) :
        LET pl == get_penalty_and_length(anchs[anchor_index + 1])
        IN  /\ anchs[anchor_index + 1].state = "Exact"
            /\ ~pl.panic
            /\ evaluate_exact_alignment(pl.penalty, pl.length, cutoff)}

LeastPenalty(anchs, cutoff) ==
    {anchor_index \in ExactMeetingCutoff(anchs, cutoff) :
        \A other \in ExactMeetingCutoff(anchs, cutoff) :
            get_penalty_and_length(anchs[anchor_index + 1]).penalty
                <= get_penalty_and_length(anchs[other + 1]).penalty}

\* C6: with get_minimum_penalty on, get_result returns alignments of
\* anchors that are Exact, meet the cutoff and have the least total penalty
\* of these anchors, at least one whenever such an anchor exists, whatever
\* anchor 0 is; it selects no Dropped anchor, so it does not panic.  (The
\* anchors that are Exact and meet the cutoff before get_result are the
\* Exact anchors after it.)
C6_MinimumPenalty ==
    (pc \in {"done", "panic"} /\ get_minimum_penalty) =>
        /\ pc = "done"
        /\ \A r \in result : r.anchor_index \in LeastPenalty(anchors, aligner)
        /\ ExactMeetingCutoff(anchors, aligner) # {} => result # {}

\* The flank of an anchor that is a Ref names an Exact anchor holding, on
\* the same flank, an Own block of at least reverse_index operations.
RefTargetValid(anchs, block, block_type) ==
    block.kind = "Ref" =>
        LET anchor == anchs[block.index + 1]
            target == IF block_type = "Fore" THEN anchor.fore ELSE anchor.hind
        IN  /\ anchor.state = "Exact"
            /\ target.kind = "Own"
            /\ Len(target.operations) >= block.reverse_index

\* C7: from the moment a flank is set to Ref until get_result has
\* reconstructed the operations, the anchor the Ref names is Exact with an
\* Own block of at least reverse_index operations on that flank, and the
\* reconstruction does not abort on an invalid anchor.
C7_RefTargetStaysExact ==
    /\ \A n \in 1..Len(anchors) :
          anchors[n].state = "Exact" =>
              /\ RefTargetValid(anchors, anchors[n].fore, "Fore")
              /\ RefTargetValid(anchors, anchors[n].hind, "Hind")
    /\ ~get_minimum_penalty => abort # InvalidAnchor

\* C8: when the hind pass and the fore pass are over, every anchor is
\* Dropped or Exact with both blocks, and get_result does not unwrap an
\* absent fore block.
C8_BothExtensions ==
    /\ pc \in {"result", "done", "panic"} =>
          \A n \in 1..Len(anchors) :
              \/ anchors[n].state = "Dropped"
              \/ /\ anchors[n].state = "Exact"
                 /\ anchors[n].fore.kind # "None"
                 /\ anchors[n].hind.kind # "None"
    /\ abort # "unwrap on None"

\* The passes are over with an anchor dropped in the hind pass, one whose
\* hind block is a Ref and one whose fore block is a Ref.
C8_Witness ==
    /\ pc = "result"
    /\ \E n \in 1..Len(anchors) : anchors[n].state = "Dropped"
    /\ \E n \in 1..Len(anchors) :
          anchors[n].state = "Exact" /\ anchors[n].hind.kind = "Ref"
    /\ \E n \in 1..Len(anchors) :
          anchors[n].state = "Exact" /\ anchors[n].fore.kind = "Ref"

---------------------------------------------------------------------------
(* SpecDwfa.  DropoffWaveFront::new_with_align of                          *)
(* src/src/core/extending/dwfa.rs.  dwfa holds the arguments of the call,  *)
(* the wave front under construction and the position of the call:        *)
(*                                                                         *)
(*   wave_front_scores  element s + 1 is the WaveFrontScore of score s:    *)
(*                      max_k and components, a sequence of <<M, I, D>>    *)
(*                      whose element max_k + k + 1 is for the diagonal k  *)
(*   last_score, last_k the fields of that name; last_k is [some, k]       *)
(*   score              the score the loop of new_with_align is at         *)
(*   status             "allocated" | "loop" | "returned" | "panic"        *)

MaxFlankLen == 3
MaxSparePenalty == 4

DwfaPenalties ==
    { [x |-> 1, o |-> 0, e |-> 1], [x |-> 2, o |-> 1, e |-> 1],
      [x |-> 3, o |-> 0, e |-> 1], [x |-> 2, o |-> 0, e |-> 2] }

Flanks == SeqsOfLen(Alphabet, 0, MaxFlankLen)

\* The wave_front_scores allocated_empty pushes: o + e scores of max_k 0,
\* and spare_penalty + 1 scores in all when spare_penalty >= o + e.
allocated_empty(penalties, spare_penalty) ==
    LET wave_front_score_count ==
            IF spare_penalty >= penalties.o + penalties.e
            THEN spare_penalty + 1
            ELSE penalties.o + penalties.e
    IN  [last_score |-> spare_penalty,
         last_k |-> [some |-> FALSE, k |-> 0],
         wave_front_scores |->
            [n \in 1..wave_front_score_count |->
                [max_k |-> max_k_of_score(n - 1, penalties),
                 components |-> <<>>]]]

add_first_components(first_match) ==
    << <<Component(first_match, START), ComponentEmpty, ComponentEmpty>> >>

\* Vec::get on the components of pre_score; a negative i32 cast to usize
\* is out of range.
PreComponents(wave_front_scores, pre_score, component_index) ==
    LET components == wave_front_scores[pre_score + 1].components
    IN  IF component_index >= 0 /\ component_index < Len(components)
        THEN [some |-> TRUE, c |-> components[component_index + 1]]
        ELSE [some |-> FALSE,
              c |-> <<ComponentEmpty, ComponentEmpty, ComponentEmpty>>]

\* new_components_and_k_range_of_score for the diagonal k: <<M, I, D>>
\* after the blocks (1), (2) and (3), each skipped when its pre_score
\* would be negative.
ComponentsOfK(wave_front_scores, score, penalties, k) ==
    LET oe == penalties.o + penalties.e
        pre_max_k(pre_score) == wave_front_scores[pre_score + 1].max_k
        \* (1) From score: s-o-e
        pre_oe(shift) ==
            PreComponents(wave_front_scores, score - oe,
                          pre_max_k(score - oe) + k - 1 + shift)
        i_1 == IF score >= oe /\ pre_oe(0).some /\ pre_oe(0).c[1].bt # EMPTY
               THEN Component(pre_oe(0).c[1].fr + 1, FROM_M)
               ELSE ComponentEmpty
        d_1 == IF score >= oe /\ pre_oe(2).some /\ pre_oe(2).c[1].bt # EMPTY
               THEN Component(pre_oe(2).c[1].fr, FROM_M)
               ELSE ComponentEmpty
        \* (2) From score: s-e
        pre_e(shift) ==
            PreComponents(wave_front_scores, score - penalties.e,
                          pre_max_k(score - penalties.e) + k - 1 + shift)
        i_2 == IF /\ score >= penalties.e
                  /\ pre_e(0).some /\ pre_e(0).c[2].bt # EMPTY
                  /\ (i_1.bt = EMPTY \/ i_1.fr > pre_e(0).c[2].fr + 1)
               THEN Component(pre_e(0).c[2].fr + 1, FROM_I)
               ELSE i_1
        d_2 == IF /\ score >= penalties.e
                  /\ pre_e(2).some /\ pre_e(2).c[3].bt # EMPTY
                  /\ (d_1.bt = EMPTY \/ d_1.fr > pre_e(2).c[3].fr)
               THEN Component(pre_e(2).c[3].fr, FROM_D)
               ELSE d_1
        \* (3) From score: s-x
        pre_x == PreComponents(wave_front_scores, score - penalties.x,
                               pre_max_k(score - penalties.x) + k)
        m_1 == IF score >= penalties.x /\ pre_x.some
               THEN Component(pre_x.c[1].fr + 1, FROM_M)
               ELSE ComponentEmpty
        m_2 == IF /\ score >= penalties.x
                  /\ i_2.bt # EMPTY
                  /\ (m_1.bt = EMPTY \/ i_2.fr >= m_1.fr)
               THEN Component(i_2.fr, FROM_I)
               ELSE m_1
        m_3 == IF /\ score >= penalties.x
                  /\ d_2.bt # EMPTY
                  /\ (m_2.bt = EMPTY \/ d_2.fr >= m_2.fr)
               THEN Component(d_2.fr, FROM_D)
               ELSE m_2
    IN  <<m_3, i_2, d_2>>

new_components_and_k_range_of_score(wave_front_scores, score, penalties) ==
    LET max_k == wave_front_scores[score + 1].max_k
    IN  [index_of_k \in 1..(2 * max_k + 1) |->
            ComponentsOfK(wave_front_scores, score, penalties,
                          index_of_k - 1 - max_k)]

\* The loop of fill_wave_front_score_and_exist_with_last_k from the
\* diagonal of index_of_k on.  outcome is "some" (an end is reached at
\* diagonal k), "none", or "panic": v = (fr - k) as usize or h = fr starts
\* a slice beyond the end of its sequence.
RECURSIVE FillLoop(_, _, _, _, _)
FillLoop(components_of_score, index_of_k, max_k, text, qry) ==
    IF index_of_k > Len(components_of_score)
    THEN [outcome |-> "none", k |-> 0, components |-> components_of_score]
    ELSE LET k == index_of_k - 1 - max_k
             m_component == components_of_score[index_of_k][1]
             v == m_component.fr - k
             h == m_component.fr
             match_count == consecutive_match_forward(text, qry, v, h)
             extended ==
                [components_of_score EXCEPT ![index_of_k][1].fr = @ + match_count]
         IN  IF m_component.bt = EMPTY
             THEN FillLoop(components_of_score, index_of_k + 1, max_k, text, qry)
             ELSE IF v < 0 \/ v > Len(qry) \/ h > Len(text)
             THEN [outcome |-> "panic", k |-> k, components |-> components_of_score]
             ELSE IF h + match_count >= Len(text) \/ v + match_count >= Len(qry)
             THEN [outcome |-> "some", k |-> k, components |-> extended]
             ELSE FillLoop(extended, index_of_k + 1, max_k, text, qry)

fill_wave_front_score_and_exist_with_last_k(d, score) ==
    FillLoop(new_components_and_k_range_of_score(d.wave_front_scores, score,
                                                 d.penalties),
             1, d.wave_front_scores[score + 1].max_k, d.ref_seq, d.qry_seq)

\* last_score is set from the number of allocated scores.
update_if_aligned_to_end(d, last_k) ==
    [d EXCEPT !.last_score = Len(d.wave_front_scores) + 1,
              !.last_k = [some |-> TRUE, k |-> last_k],
              !.status = "returned"]

InitDwfa ==
    /\ \E text \in Flanks, qry \in Flanks, penalties \in DwfaPenalties,
          spare_penalty \in 0..MaxSparePenalty :
          dwfa = [ref_seq |-> text, qry_seq |-> qry, penalties |-> penalties,
                  spare_penalty |-> spare_penalty, score |-> 0,
                  status |-> "allocated"]
                     @@ allocated_empty(penalties, spare_penalty)
    /\ aligner = Unused /\ ref_seq = <<>> /\ qry_seq = <<>> /\ anchors = <<>>
    /\ pc = "unused" /\ idx = 0 /\ get_minimum_penalty = FALSE
    /\ result = {} /\ abort = ""
    /\ finder = Unused /\ kmer_case = Unused
    /\ group_new = Unused
    /\ calls = Unused

\* The first components and the test of the first match count.
DwfaFirst ==
    /\ dwfa.status = "allocated"
    /\ LET first_match_count ==
               consecutive_match_forward(dwfa.ref_seq, dwfa.qry_seq, 0, 0)
           first == [dwfa EXCEPT !.wave_front_scores[1].components =
                                     add_first_components(first_match_count)]
       IN  dwfa' = IF \/ first_match_count >= Len(dwfa.ref_seq)
                      \/ first_match_count >= Len(dwfa.qry_seq)
                   THEN update_if_aligned_to_end(first, 0)
                   ELSE [first EXCEPT !.status = "loop", !.score = 1]
    /\ UNCHANGED <<pipeline_vars, finder, kmer_case, group_new, calls>>

\* One iteration of "for score in 1..=spare_penalty".
DwfaFill ==
    /\ dwfa.status = "loop"
    /\ dwfa.score <= dwfa.spare_penalty
    /\ \E filled \in {fill_wave_front_score_and_exist_with_last_k(dwfa, dwfa.score)} :
        LET updated == [dwfa EXCEPT !.wave_front_scores[dwfa.score + 1].components =
                                        filled.components]
        IN  dwfa' = CASE filled.outcome = "panic" ->
                            [dwfa EXCEPT !.status = "panic"]
                      [] filled.outcome = "some" ->
                            update_if_aligned_to_end(updated, filled.k)
                      [] OTHER -> [updated EXCEPT !.score = @ + 1]
    /\ UNCHANGED <<pipeline_vars, finder, kmer_case, group_new, calls>>

\* The loop is over without an end reached: last_k stays None.
DwfaDropout ==
    /\ dwfa.status = "loop"
    /\ dwfa.score > dwfa.spare_penalty
    /\ dwfa' = [dwfa EXCEPT !.status = "returned"]
    /\ UNCHANGED <<pipeline_vars, finder, kmer_case, group_new, calls>>

NextDwfa == DwfaFirst \/ DwfaFill \/ DwfaDropout

SpecDwfa == InitDwfa /\ [][NextDwfa]_vars

\* The least gap-affine penalty of a path from (0, 0) to (h, v) ending in
\* state c: "M" after any operation, "I" after a gap that consumes the
\* reference, "D" after a gap that consumes the query.  unreachable stands
\* for no path.  The table is filled by relaxation up to its fixed point.
PathCells(text, qry) == (0..Len(text)) \X (0..Len(qry)) \X {"M", "I", "D"}

RelaxPaths(dist, text, qry, penalties, unreachable) ==
    [cell \in PathCells(text, qry) |->
        LET h == cell[1]
            v == cell[2]
            from(ph, pv, c, cost) ==
                IF ph < 0 \/ pv < 0 \/ dist[<<ph, pv, c>>] = unreachable
                THEN unreachable
                ELSE Min(unreachable, dist[<<ph, pv, c>>] + cost)
        IN  CASE cell[3] = "I" ->
                    Min(from(h - 1, v, "M", penalties.o + penalties.e),
                        from(h - 1, v, "I", penalties.e))
              [] cell[3] = "D" ->
                    Min(from(h, v - 1, "M", penalties.o + penalties.e),
                        from(h, v - 1, "D", penalties.e))
              [] OTHER ->
                    IF h = 0 /\ v = 0 THEN 0
                    ELSE Min(Min(from(h, v, "I", 0), from(h, v, "D", 0)),
                             IF h > 0 /\ v > 0
                             THEN from(h - 1, v - 1, "M",
                                       IF text[h] = qry[v] THEN 0 ELSE penalties.x)
                             ELSE unreachable)]

RECURSIVE PathsFixedPoint(_, _, _, _, _)
PathsFixedPoint(dist, text, qry, penalties, unreachable) ==
    LET Step(relaxed) ==
            IF relaxed = dist THEN dist
            ELSE PathsFixedPoint(relaxed, text, qry, penalties, unreachable)
    IN  Step(RelaxPaths(dist, text, qry, penalties, unreachable))

\* The least penalty of a path from (0, 0) to the end of the reference or
\* of the query.
MinimumEndPenalty(text, qry, penalties) ==
    LET unreachable ==
            (Len(text) + Len(qry) + 1) * (penalties.x + penalties.o + penalties.e)
        dist == PathsFixedPoint([cell \in PathCells(text, qry) |-> unreachable],
                                text, qry, penalties, unreachable)
    IN  SetMin({dist[<<h, v, "M">>] :
                  <<h, v>> \in {c \in (0..Len(text)) \X (0..Len(qry)) :
                                   c[1] = Len(text) \/ c[2] = Len(qry)}})

\* C5: new_with_align returns with last_k set exactly when the least
\* penalty of a path to the end of the reference or of the query is at most
\* spare_penalty, and then the score it stops at is that least penalty.
C5_EndReachedIffWithinSpare ==
    dwfa.status = "returned" =>
        \E least \in {MinimumEndPenalty(dwfa.ref_seq, dwfa.qry_seq, dwfa.penalties)} :
            /\ dwfa.last_k.some <=> least <= dwfa.spare_penalty
            /\ dwfa.last_k.some => dwfa.score = least

\* new_with_align returns; it does not panic on a slice out of range.
DwfaNoPanic == dwfa.status # "panic"

\* C12: when new_with_align returns because the M component of diagonal k
\* at score s reached the end of the reference or of the query, last_k is
\* k, last_score is s and the wave front holds last_score + 1 scores.
C12_EndRecorded ==
    (dwfa.status = "returned" /\ dwfa.last_k.some) =>
        LET wave_front_score == dwfa.wave_front_scores[dwfa.score + 1]
            k == dwfa.last_k.k
            m_component == wave_front_score.components[wave_front_score.max_k + k + 1][1]
        IN  /\ m_component.bt # EMPTY
            /\ \/ m_component.fr >= Len(dwfa.ref_seq)
               \/ m_component.fr - k >= Len(dwfa.qry_seq)
            /\ dwfa.last_score = dwfa.score
            /\ Len(dwfa.wave_front_scores) = dwfa.last_score + 1

\* The backtrace tag of component c (1 M, 2 I, 3 D) of diagonal k at the
\* given score; EMPTY where the wave front holds no such cell.
TagOf(wave_front_scores, score, k, c) ==
    IF score < 0 \/ score >= Len(wave_front_scores) THEN EMPTY
    ELSE LET wave_front_score == wave_front_scores[score + 1]
             component_index == wave_front_score.max_k + k
         IN  IF component_index < 0
                    \/ component_index >= Len(wave_front_score.components)
             THEN EMPTY
             ELSE wave_front_score.components[component_index + 1][c].bt

\* C20: in every filled score s >= 1 of the wave front, an I cell of
\* diagonal k is non-EMPTY only if M at s-o-e or I at s-e on diagonal k-1 is
\* non-EMPTY, a D cell only if M at s-o-e or D at s-e on diagonal k+1 is
\* non-EMPTY, and an M cell only if M at s-x on diagonal k or one of those
\* four cells is non-EMPTY.
C20_EmptyNeverContributes ==
    dwfa.status \in {"loop", "returned"} =>
        \A score \in 1..(Len(dwfa.wave_front_scores) - 1) :
            LET wfs == dwfa.wave_front_scores
                max_k == wfs[score + 1].max_k
                x == dwfa.penalties.x
                oe == dwfa.penalties.o + dwfa.penalties.e
                e == dwfa.penalties.e
                FromI(k) == \/ TagOf(wfs, score - oe, k - 1, 1) # EMPTY
                            \/ TagOf(wfs, score - e, k - 1, 2) # EMPTY
                FromD(k) == \/ TagOf(wfs, score - oe, k + 1, 1) # EMPTY
                            \/ TagOf(wfs, score - e, k + 1, 3) # EMPTY
            IN  \A k \in (-max_k)..max_k :
                    /\ TagOf(wfs, score, k, 2) # EMPTY => FromI(k)
                    /\ TagOf(wfs, score, k, 3) # EMPTY => FromD(k)
                    /\ TagOf(wfs, score, k, 1) # EMPTY =>
                            \/ TagOf(wfs, score - x, k, 1) # EMPTY
                            \/ FromI(k)
                            \/ FromD(k)

\* The stored component c (1 M, 2 I, 3 D) of diagonal k at the given
\* score; the empty component where the wave front holds no such cell.
CellOf(wave_front_scores, score, k, c) ==
    IF score < 0 \/ score >= Len(wave_front_scores) THEN ComponentEmpty
    ELSE LET wave_front_score == wave_front_scores[score + 1]
             component_index == wave_front_score.max_k + k
         IN  IF component_index < 0
                    \/ component_index >= Len(wave_front_score.components)
             THEN ComponentEmpty
             ELSE wave_front_score.components[component_index + 1][c]

\* The loop of new_with_align is about to fill dwfa.score.
AboutToFill ==
    dwfa.status = "loop" /\ dwfa.score <= dwfa.spare_penalty

\* C21: for the score s >= 1 the loop is about to fill and every diagonal k
\* of its range, the M cell that new_components_and_k_range_of_score makes
\* (before the match extension) is EMPTY exactly when none of the candidates
\* M(s-x, k), I(s, k), D(s, k) is available (non-EMPTY), and otherwise its fr
\* is the largest of M(s-x, k).fr + 1, I(s, k).fr and D(s, k).fr over the
\* available ones.
C21_MIsMaxOfCandidates ==
    AboutToFill =>
        LET wfs == dwfa.wave_front_scores
            score == dwfa.score
            max_k == wfs[score + 1].max_k
        IN  \A k \in (-max_k)..max_k :
                LET made == ComponentsOfK(wfs, score, dwfa.penalties, k)
                    pre_m == CellOf(wfs, score - dwfa.penalties.x, k, 1)
                    candidates ==
                        (IF pre_m.bt # EMPTY THEN {pre_m.fr + 1} ELSE {})
                        \cup {made[c].fr : c \in {c \in {2, 3} : made[c].bt # EMPTY}}
                IN  /\ made[1].bt = EMPTY <=> candidates = {}
                    /\ candidates # {} =>
                        /\ made[1].fr \in candidates
                        /\ \A fr \in candidates : made[1].fr >= fr

\* The component made took the larger of the gap-open candidate (fr
\* open_fr, tag FROM_M) and the gap-extend candidate (fr extend_fr, tag
\* extend_tag).
TookLarger(made, open_fr, extend_fr, extend_tag) ==
    /\ made.fr = Max(open_fr, extend_fr)
    /\ \/ made.bt = FROM_M /\ made.fr = open_fr
       \/ made.bt = extend_tag /\ made.fr = extend_fr

\* C22: for the score s the loop is about to fill and every diagonal k of
\* its range: when M at s-o-e and I at s-e on diagonal k-1 are both
\* non-EMPTY, the I cell made holds the larger of M.fr + 1 and I.fr + 1 with
\* the tag of the one it took; when M at s-o-e and D at s-e on diagonal k+1
\* are both non-EMPTY, the D cell made holds the larger of M.fr and D.fr
\* with the tag of the one it took.
C22_GapCellIsMax ==
    AboutToFill =>
        LET wfs == dwfa.wave_front_scores
            score == dwfa.score
            max_k == wfs[score + 1].max_k
            oe == dwfa.penalties.o + dwfa.penalties.e
            e == dwfa.penalties.e
        IN  \A k \in (-max_k)..max_k :
                LET made == ComponentsOfK(wfs, score, dwfa.penalties, k)
                    open_i == CellOf(wfs, score - oe, k - 1, 1)
                    extend_i == CellOf(wfs, score - e, k - 1, 2)
                    open_d == CellOf(wfs, score - oe, k + 1, 1)
                    extend_d == CellOf(wfs, score - e, k + 1, 3)
                IN  /\ (open_i.bt # EMPTY /\ extend_i.bt # EMPTY) =>
                            TookLarger(made[2], open_i.fr + 1,
                                       extend_i.fr + 1, FROM_I)
                    /\ (open_d.bt # EMPTY /\ extend_d.bt # EMPTY) =>
                            TookLarger(made[3], open_d.fr, extend_d.fr, FROM_D)

\* C29: for the score the loop is about to fill, every non-EMPTY M cell
\* that fill_wave_front_score_and_exist_with_last_k hands to the match
\* counter has 0 <= fr - k <= query length and 0 <= fr <= reference length:
\* the fill does not end in a panic on a slice start out of range.
C29_MCellInRange ==
    AboutToFill =>
        fill_wave_front_score_and_exist_with_last_k(dwfa, dwfa.score).outcome
            # "panic"

---------------------------------------------------------------------------
(* SpecLocate.  PatternFinder::locate_in_record_search_range of            *)
(* src/sigalign/src/reference/structure/pattern_finder.rs (the loop of     *)
(* Database::find_ref_positions in src/src/database.rs is the same).       *)
(* finder holds the fields of the PatternFinder, the arguments and the     *)
(* locals of the call:                                                     *)
(*                                                                         *)
(*   record_boundary_positions  element i + 1 is the joined position where *)
(*                      record i starts; the last element is the length of *)
(*                      the joined sequence                                *)
(*   target_record_index  the search range, ascending record indices       *)
(*   sorted_locations   the joined positions of the pattern, ascending     *)
(*   next               how many locations the for loop has taken          *)
(*   positions_by_record  the HashMap, a function from the record indices  *)
(*                      it holds to their lists of positions               *)
(*   status             "for" | "while" | "returned"                       *)

MaxRecords == 3
MaxRecordLen == 3
MaxPatternSize == 2
MaxLocations == 3

\* The boundaries of records of the given lengths.
RECURSIVE BoundariesOf(_)
BoundariesOf(lengths) ==
    IF lengths = <<>> THEN <<0>>
    ELSE LET before == BoundariesOf(SubSeq(lengths, 1, Len(lengths) - 1))
         IN  Append(before, before[Len(before)] + lengths[Len(lengths)])

RecordBoundaries ==
    {BoundariesOf(lengths) : lengths \in SeqsOfLen(1..MaxRecordLen, 1, MaxRecords)}

InitLocate ==
    /\ \E boundaries \in RecordBoundaries, pattern_size \in 1..MaxPatternSize :
        \E range \in SUBSET (0..(Len(boundaries) - 2)),
           locations \in SUBSET (0..(boundaries[Len(boundaries)] - pattern_size)) :
            /\ Cardinality(locations) <= MaxLocations
            /\ finder = [record_boundary_positions |-> boundaries,
                         target_record_index |-> SortedSeq(range),
                         pattern_size |-> pattern_size,
                         sorted_locations |-> SortedSeq(locations),
                         next |-> 0, position |-> 0,
                         size |-> 0, left |-> 0, right |-> 0, mid |-> 0,
                         positions_by_record |-> <<>>,
                         status |-> "for"]
    /\ aligner = Unused /\ ref_seq = <<>> /\ qry_seq = <<>> /\ anchors = <<>>
    /\ pc = "unused" /\ idx = 0 /\ get_minimum_penalty = FALSE
    /\ result = {} /\ abort = ""
    /\ dwfa = Unused /\ kmer_case = Unused
    /\ group_new = Unused
    /\ calls = Unused

\* The reset with "left = mid + 1": the search starts past the record where
\* the previous search ended.
LocateForPastMid ==
    /\ finder.status = "for"
    /\ finder.next < Len(finder.sorted_locations)
    /\ finder' = [finder EXCEPT
                    !.position = finder.sorted_locations[finder.next + 1],
                    !.next = @ + 1,
                    !.right = Len(finder.target_record_index),
                    !.left = finder.mid + 1,
                    !.size = Len(finder.target_record_index) - (finder.mid + 1),
                    !.status = "while"]
    /\ UNCHANGED <<pipeline_vars, dwfa, kmer_case, group_new, calls>>

\* "for position in sorted_locations": the reset of right, left and size.
LocateFor ==
    /\ finder.status = "for"
    /\ finder.next < Len(finder.sorted_locations)
    /\ finder' = [finder EXCEPT
                    !.position = finder.sorted_locations[finder.next + 1],
                    !.next = @ + 1,
                    !.right = Len(finder.target_record_index),
                    !.left = finder.mid,
                    !.size = Len(finder.target_record_index) - finder.mid,
                    !.status = "while"]
    /\ UNCHANGED <<pipeline_vars, dwfa, kmer_case, group_new, calls>>

\* What one pass through the body of "while left < right" leaves.
locate_probe(f) ==
    LET mid == f.left + f.size \div 2
        index == f.target_record_index[mid + 1]
        start == f.record_boundary_positions[index + 1]
        end == f.record_boundary_positions[index + 2]
        ref_pos == f.position - start
        probed == [f EXCEPT !.mid = mid]
    IN  IF f.position >= end
        THEN [probed EXCEPT !.left = mid + 1, !.size = f.right - (mid + 1)]
        ELSE IF start > f.position
        THEN [probed EXCEPT !.right = mid, !.size = mid - f.left]
        ELSE IF f.position + f.pattern_size < end
        THEN [probed EXCEPT
                !.positions_by_record =
                    IF index \in DOMAIN f.positions_by_record
                    THEN [f.positions_by_record EXCEPT ![index] = Append(@, ref_pos)]
                    ELSE f.positions_by_record @@ (index :> <<ref_pos>>),
                !.status = "for"]
        ELSE [probed EXCEPT !.status = "for"]

LocateWhile ==
    /\ finder.status = "while"
    /\ finder.left < finder.right
    /\ finder' = locate_probe(finder)
    /\ UNCHANGED <<pipeline_vars, dwfa, kmer_case, group_new, calls>>

\* left >= right: the search of this location ends without a record.
LocateWhileEnd ==
    /\ finder.status = "while"
    /\ finder.left >= finder.right
    /\ finder' = [finder EXCEPT !.status = "for"]
    /\ UNCHANGED <<pipeline_vars, dwfa, kmer_case, group_new, calls>>

LocateReturn ==
    /\ finder.status = "for"
    /\ finder.next = Len(finder.sorted_locations)
    /\ finder' = [finder EXCEPT !.status = "returned"]
    /\ UNCHANGED <<pipeline_vars, dwfa, kmer_case, group_new, calls>>

NextLocate == LocateFor \/ LocateWhile \/ LocateWhileEnd \/ LocateReturn

SpecLocate == InitLocate /\ [][NextLocate]_vars

\* The call reports ref_pos under the record of record_index.
Reported(record_index, ref_pos) ==
    /\ record_index \in DOMAIN finder.positions_by_record
    /\ InSeq(finder.positions_by_record[record_index], ref_pos)

\* C9: for every location p of the pattern and every record of the search
\* range with boundaries [start, end), the position p - start is reported
\* under the record exactly when start <= p and p + pattern_size <= end.
C9_WholePatternInRecord ==
    finder.status = "returned" =>
        \A n \in 1..Len(finder.sorted_locations),
           m \in 1..Len(finder.target_record_index) :
            LET p == finder.sorted_locations[n]
                index == finder.target_record_index[m]
                start == finder.record_boundary_positions[index + 1]
                end == finder.record_boundary_positions[index + 2]
            IN  Reported(index, p - start)
                    <=> (start <= p /\ p + finder.pattern_size <= end)

\* The while loop run to its end from f, a call state with status "while".
RECURSIVE locate_while(_)
locate_while(f) ==
    IF f.status = "while" /\ f.left < f.right
    THEN locate_while(locate_probe(f))
    ELSE [f EXCEPT !.status = "for"]

\* The for loop over the locations after the first n, every search started
\* with left = 0 in place of "left = mid".
RECURSIVE locate_from_zero(_, _)
locate_from_zero(f, n) ==
    IF n = Len(f.sorted_locations) THEN f
    ELSE locate_from_zero(
            locate_while([f EXCEPT !.position = f.sorted_locations[n + 1],
                                   !.next = n + 1,
                                   !.right = Len(f.target_record_index),
                                   !.left = 0,
                                   !.size = Len(f.target_record_index),
                                   !.status = "while"]),
            n + 1)

\* The HashMap of the call when every location is searched over the whole
\* search range.
PositionsFromZero ==
    locate_from_zero([finder EXCEPT !.next = 0, !.position = 0, !.size = 0,
                                    !.left = 0, !.right = 0, !.mid = 0,
                                    !.positions_by_record = <<>>,
                                    !.status = "for"], 0).positions_by_record

\* The positions of every record of the HashMap are strictly ascending.
PositionsAscending ==
    \A index \in DOMAIN finder.positions_by_record :
        \A i \in 1..(Len(finder.positions_by_record[index]) - 1) :
            finder.positions_by_record[index][i]
                < finder.positions_by_record[index][i + 1]

\* One more pass through the while loop that does not leave it narrows
\* right - left, so the loop ends after at most right - left passes.
LocateWhileNarrows ==
    (LocateWhile /\ finder'.status = "while")
        => /\ finder'.right - finder'.left < finder.right - finder.left
           /\ finder'.right - finder'.left >= 0

\* C17: with the locations ascending and the search range ascending,
\* starting every binary search at the midpoint where the previous one ended
\* skips no record: the returned per-record position lists equal those of
\* the same searches started at index 0 of the search range, the positions
\* of a record are ascending, and every pass of the inner loop narrows
\* right - left, so every inner loop terminates.
C17_MidpointReuse ==
    /\ [](/\ PositionsAscending
          /\ finder.status = "returned"
                => finder.positions_by_record = PositionsFromZero)
    /\ [][LocateWhileNarrows]_vars

\* A returned call whose later searches started at a midpoint above 0 and
\* that reports two positions in one record and a position in another.
C17_Witness ==
    /\ finder.status = "returned"
    /\ finder.mid > 0
    /\ \E index \in DOMAIN finder.positions_by_record :
        Len(finder.positions_by_record[index]) >= 2
    /\ Cardinality(DOMAIN finder.positions_by_record) >= 2

---------------------------------------------------------------------------
(* SpecKmer.  The pattern size of Aligner::kmer_calculation against the    *)
(* alignments it is to anchor.  kmer_case holds the arguments of           *)
(* Aligner::new, the kmer it derives, and an alignment: the query position *)
(* it starts at and its operations, appended one at a time.  The pattern   *)
(* blocks of the query are query[i * kmer .. (i + 1) * kmer], as           *)
(* AnchorGroup::new slices them.                                           *)

MaxAlignmentLen == 5

KmerPenalties == { [x |-> 1, o |-> 0, e |-> 1], [x |-> 2, o |-> 1, e |-> 1] }

\* score_per_length = num / den and minimum_length.
KmerCutoffs ==
    { [num |-> 5, den |-> 16, minimum_length |-> 4],
      [num |-> 1, den |-> 8, minimum_length |-> 5],
      [num |-> 1, den |-> 1, minimum_length |-> 4] }

InitKmer ==
    /\ \E penalties \in KmerPenalties, cutoff \in KmerCutoffs :
        \E kmer \in {kmer_calculation(cutoff.num, cutoff.den, cutoff.minimum_length,
                        EmpKmerNew(penalties.x, penalties.o, penalties.e))} :
            \E qry_position \in 0..Max(kmer - 1, 0) :
                kmer_case = [x |-> penalties.x, o |-> penalties.o, e |-> penalties.e,
                             num |-> cutoff.num, den |-> cutoff.den,
                             minimum_length |-> cutoff.minimum_length,
                             kmer |-> kmer,
                             qry_position |-> qry_position,
                             operations |-> <<>>]
    /\ aligner = Unused /\ ref_seq = <<>> /\ qry_seq = <<>> /\ anchors = <<>>
    /\ pc = "unused" /\ idx = 0 /\ get_minimum_penalty = FALSE
    /\ result = {} /\ abort = ""
    /\ dwfa = Unused /\ finder = Unused
    /\ group_new = Unused
    /\ calls = Unused

\* The alignment grows by one operation.
KmerAppend ==
    /\ Len(kmer_case.operations) < MaxAlignmentLen
    /\ \E operation \in {Match, Subst, Ins, Del} :
        kmer_case' = [kmer_case EXCEPT !.operations = Append(@, operation)]
    /\ UNCHANGED <<pipeline_vars, dwfa, finder, group_new, calls>>

NextKmer == KmerAppend

SpecKmer == InitKmer /\ [][NextKmer]_vars

\* The query position the operation n of the alignment is at: Match, Subst
\* and Del consume the query, Ins consumes the reference only.
QryPositionOf(c, n) ==
    c.qry_position + Cardinality({j \in 1..(n - 1) : c.operations[j] # Ins})

\* A whole pattern block of the query is aligned by Match operations only:
\* kmer consecutive Match operations, the first at a multiple of kmer.
HasMatchedBlock(c) ==
    /\ c.kmer >= 1
    /\ \E n \in 1..(Len(c.operations) - c.kmer + 1) :
        /\ \A j \in n..(n + c.kmer - 1) : c.operations[j] = Match
        /\ QryPositionOf(c, n) % c.kmer = 0

\* C13: every Aligner that Aligner::new produces has a gap-extend penalty
\* of at least 1, a score_per_length in (0, 1] and a pattern size of at
\* least 1; for other arguments no Aligner is produced.
C13_AlignerIsValid ==
    /\ kmer_case.e >= 1
    /\ 0 < kmer_case.num
    /\ kmer_case.num <= kmer_case.den
    /\ kmer_case.kmer >= 1

\* C10: every alignment of at least minimum_length operations whose
\* penalty per length is at most score_per_length holds a whole pattern
\* block of the derived size aligned by Match operations only.
C10_PatternBlockInAlignment ==
    (/\ Len(kmer_case.operations) >= kmer_case.minimum_length
     /\ RecomputedPenalty(kmer_case.operations, kmer_case) * kmer_case.den
            <= kmer_case.num * Len(kmer_case.operations))
        => HasMatchedBlock(kmer_case)

---------------------------------------------------------------------------
(* SpecNew.  AnchorGroup::new of src/src/alignment/anchor.rs, step by      *)
(* step.  group_new holds the arguments and the locals of the call:        *)
(*                                                                         *)
(*   scan      the locals of "(1) Generate Anchors Proto": anchors_cache   *)
(*             (cache_some, cache), anchors_preset and anchor_existence    *)
(*   i         the index of the loop the call is in                        *)
(*   anchors   anchors_preset from "(2) Calculate the EMP values" on       *)
(*   pc        "scan" | "exist" | "estimate" | "evaluate" |                *)
(*             "check_points" | "some" | "none"                            *)

MaxNewRefLen == 6
MaxNewQryLen == 6

NewRefs == SeqsOfLen(Alphabet, 0, MaxNewRefLen)
NewQrys == SeqsOfLen(Alphabet, 0, MaxNewQryLen)

InitNew ==
    /\ \E r \in NewRefs, q \in NewQrys,
          a \in {b \in AlignerArgs : ~b.using_cached_wf} :
          group_new = [ref_seq |-> r, qry_seq |-> q, aligner |-> AlignerNew(a),
                       pc |-> "scan", i |-> 0, scan |-> ScanInit,
                       anchors |-> <<>>]
    /\ aligner = Unused /\ ref_seq = <<>> /\ qry_seq = <<>> /\ anchors = <<>>
    /\ pc = "unused" /\ idx = 0 /\ get_minimum_penalty = FALSE
    /\ result = {} /\ abort = ""
    /\ dwfa = Unused /\ finder = Unused /\ kmer_case = Unused
    /\ calls = Unused

\* One iteration of "for i in 0..search_count".
NewScan ==
    /\ group_new.pc = "scan"
    /\ group_new.i < Len(group_new.qry_seq) \div group_new.aligner.kmer
    /\ group_new' =
          [group_new EXCEPT
              !.scan = ScanStep(group_new.scan, group_new.i, group_new.ref_seq,
                                group_new.qry_seq, group_new.aligner.kmer),
              !.i = group_new.i + 1]
    /\ UNCHANGED <<pipeline_vars, dwfa, finder, kmer_case, calls>>

\* The loop is over: "push last anchors".
NewPushLast ==
    /\ group_new.pc = "scan"
    /\ group_new.i >= Len(group_new.qry_seq) \div group_new.aligner.kmer
    /\ group_new' = [group_new EXCEPT !.scan = ScanFinish(group_new.scan),
                                      !.pc = "exist"]
    /\ UNCHANGED <<pipeline_vars, dwfa, finder, kmer_case, calls>>

\* "check anchor exist": return None, or go on with anchors_preset.
NewCheckExist ==
    /\ group_new.pc = "exist"
    /\ group_new' =
          IF ~InSeq(group_new.scan.existence, TRUE)
          THEN [group_new EXCEPT !.pc = "none"]
          ELSE [group_new EXCEPT !.pc = "estimate", !.i = 0,
                                 !.anchors = group_new.scan.preset]
    /\ UNCHANGED <<pipeline_vars, dwfa, finder, kmer_case, calls>>

\* One anchor of "(2) Calculate the EMP values".
NewEstimate ==
    /\ group_new.pc = "estimate"
    /\ group_new' =
          [group_new EXCEPT
              !.anchors[group_new.i + 1] =
                  estimate_from_empty(@, Len(group_new.ref_seq),
                                      Len(group_new.qry_seq),
                                      group_new.aligner.kmer,
                                      group_new.scan.existence,
                                      group_new.aligner.emp_kmer),
              !.i = IF group_new.i + 1 < Len(group_new.anchors)
                    THEN group_new.i + 1 ELSE 0,
              !.pc = IF group_new.i + 1 < Len(group_new.anchors)
                     THEN "estimate" ELSE "evaluate"]
    /\ UNCHANGED <<pipeline_vars, dwfa, finder, kmer_case, calls>>

\* One anchor of "(3) evaluate raw anchors".
NewEvaluate ==
    /\ group_new.pc = "evaluate"
    /\ group_new' =
          [group_new EXCEPT
              !.anchors[group_new.i + 1] =
                  IF ~is_emp_state_valid(@, group_new.aligner)
                  THEN to_dropped(@) ELSE @,
              !.i = IF group_new.i + 1 < Len(group_new.anchors)
                    THEN group_new.i + 1 ELSE 0,
              !.pc = IF group_new.i + 1 < Len(group_new.anchors)
                     THEN "evaluate" ELSE "check_points"]
    /\ UNCHANGED <<pipeline_vars, dwfa, finder, kmer_case, calls>>

\* "(4) Set up checkpoints" and the return of Some(group).
NewCheckPoints ==
    /\ group_new.pc = "check_points"
    /\ group_new' =
          [group_new EXCEPT
              !.anchors = create_check_points(group_new.anchors,
                                              group_new.aligner,
                                              group_new.aligner),
              !.pc = "some"]
    /\ UNCHANGED <<pipeline_vars, dwfa, finder, kmer_case, calls>>

NextNew ==
    \/ NewScan
    \/ NewPushLast
    \/ NewCheckExist
    \/ NewEstimate
    \/ NewEvaluate
    \/ NewCheckPoints

SpecNew == InitNew /\ [][NextNew]_vars

\* C11: the estimated penalty estimate_from_empty stores for a flank of an
\* anchor is at most the penalty of every semi-global alignment of that
\* flank from the anchor to the end of the reference or of the query.
C11_EmpIsLowerBound ==
    group_new.pc \in {"estimate", "evaluate"} =>
        \A n \in 1..Len(group_new.anchors) :
            group_new.anchors[n].state = "Estimated" =>
                LET anchor == group_new.anchors[n]
                    fore == FlankSeqs(anchor, group_new.ref_seq,
                                      group_new.qry_seq, "Fore")
                    hind == FlankSeqs(anchor, group_new.ref_seq,
                                      group_new.qry_seq, "Hind")
                IN  /\ anchor.emp[1].penalty
                         <= MinimumEndPenalty(fore.text, fore.qry,
                                              group_new.aligner)
                    /\ anchor.emp[2].penalty
                         <= MinimumEndPenalty(hind.text, hind.qry,
                                              group_new.aligner)

\* No pattern block of the query occurs in the reference; this covers the
\* query that is shorter than the pattern size.
NoPatternOccurs(g) ==
    LET kmer == g.aligner.kmer
        occurs(pattern) ==
            \E p \in 0..(Len(g.ref_seq) - kmer) :
                Slice(g.ref_seq, p, p + kmer) = pattern
    IN  \A i \in 0..((Len(g.qry_seq) \div kmer) - 1) :
            ~occurs(Slice(g.qry_seq, i * kmer, i * kmer + kmer))

\* C14: for a pattern size of at least 1, when the query is shorter than
\* the pattern or no pattern of the query occurs in the reference,
\* AnchorGroup::new returns None, the empty outcome of the call, after the
\* scan: no anchor is made, and the call never reaches the estimation, the
\* evaluation or the check points.
C14_NoAnchorReturnsEmpty ==
    (group_new.aligner.kmer >= 1 /\ NoPatternOccurs(group_new)) =>
        /\ group_new.pc \in {"scan", "exist", "none"}
        /\ group_new.anchors = <<>>
        /\ group_new.scan.preset = <<>>
        /\ ~group_new.scan.cache_some

\* The call returned None for a query of two patterns or more and a
\* reference longer than a pattern.
C14_Witness ==
    /\ group_new.pc = "none"
    /\ Len(group_new.qry_seq) >= 2 * group_new.aligner.kmer
    /\ Len(group_new.ref_seq) > group_new.aligner.kmer

\* The call returned None for a query shorter than the pattern.
C14_Witness_ShortQuery ==
    /\ group_new.pc = "none"
    /\ Len(group_new.qry_seq) < group_new.aligner.kmer
    /\ Len(group_new.ref_seq) > group_new.aligner.kmer

\* anchors_preset once "(1) Generate Anchors Proto" is over.
GeneratedAnchors(g) ==
    IF g.pc \in {"exist", "none"} THEN g.scan.preset ELSE g.anchors

\* C18: once the anchors are generated, every anchor (r, q, size) has q and
\* size multiples of the pattern size (size at least one pattern), lies
\* inside the reference and the query, covers equal symbols of the two, and
\* no anchor starts at (r + size, q + size).
C18_AnchorsMergedMaximally ==
    group_new.pc # "scan" =>
        LET g == group_new
            kmer == g.aligner.kmer
            anchs == GeneratedAnchors(g)
        IN  \A n \in 1..Len(anchs) :
                LET r == anchs[n].position[1]
                    q == anchs[n].position[2]
                    size == anchs[n].size
                IN  /\ q % kmer = 0
                    /\ size % kmer = 0
                    /\ size >= kmer
                    /\ r + size <= Len(g.ref_seq)
                    /\ q + size <= Len(g.qry_seq)
                    /\ Slice(g.ref_seq, r, r + size) = Slice(g.qry_seq, q, q + size)
                    /\ \A m \in 1..Len(anchs) :
                        anchs[m].position # <<r + size, q + size>>

\* The call returned a group with an anchor that absorbed a pattern, ends
\* before the end of the query, and is not the only anchor.
C18_Witness ==
    /\ group_new.pc = "some"
    /\ Len(group_new.anchors) >= 2
    /\ \E n \in 1..Len(group_new.anchors) :
        /\ group_new.anchors[n].size = 2 * group_new.aligner.kmer
        /\ group_new.anchors[n].position[2] + group_new.anchors[n].size
              < Len(group_new.qry_seq)

---------------------------------------------------------------------------
(* SpecChk.  AnchorGroup::new as in SpecNew, for an aligner of pattern     *)
(* size 1 and sequences long enough to hold two anchors more than three    *)
(* patterns apart on the query.                                            *)

ChkSeqLen == 6

\* score_per_length = 5 / 16 and minimum_length = 2: pattern size 1.
ChkAlignerArgs ==
    [x |-> 1, o |-> 0, e |-> 1, num |-> 5, den |-> 16, minimum_length |-> 2,
     using_cached_wf |-> FALSE]

InitChk ==
    /\ \E r \in {s \in SeqsOfLen(Alphabet, ChkSeqLen, ChkSeqLen) : s[1] = RefFirst},
          q \in SeqsOfLen(Alphabet, ChkSeqLen, ChkSeqLen) :
          group_new = [ref_seq |-> r, qry_seq |-> q,
                       aligner |-> AlignerNew(ChkAlignerArgs),
                       pc |-> "scan", i |-> 0, scan |-> ScanInit,
                       anchors |-> <<>>]
    /\ aligner = Unused /\ ref_seq = <<>> /\ qry_seq = <<>> /\ anchors = <<>>
    /\ pc = "unused" /\ idx = 0 /\ get_minimum_penalty = FALSE
    /\ result = {} /\ abort = ""
    /\ dwfa = Unused /\ finder = Unused /\ kmer_case = Unused
    /\ calls = Unused

SpecChk == InitChk /\ [][NextNew]_vars

\* src/src/core/anchoring.rs
PATTERN_INDEX_GAP_FOR_CHECK_POINTS == 3

\* The check point pair (left anchor, right anchor), 0-based indices, is
\* recorded on both anchors.
PairRecorded(anchs, left, right) ==
    /\ InSeq(anchs[left + 1].check_points[2], right)
    /\ InSeq(anchs[right + 1].check_points[1], left)

\* The three conditions on a pair A (left), B (right) of anchors.
StartsAfterEnd(A, B) ==
    /\ B.position[1] >= A.position[1] + A.size
    /\ B.position[2] >= A.position[2] + A.size

QueryGapAllowed(A, B, kmer) ==
    B.position[2] - (A.position[2] + A.size)
        <= PATTERN_INDEX_GAP_FOR_CHECK_POINTS * kmer

EmpMeetsCutoff(A, B, al) ==
    LET ref_gap == B.position[1] - (A.position[1] + A.size)
        qry_gap == B.position[2] - (A.position[2] + A.size)
        penalty == A.emp[1].penalty + B.emp[2].penalty
                    + (IF ref_gap # qry_gap
                       THEN al.o + Abs(ref_gap - qry_gap) * al.e ELSE 0)
        length == A.emp[1].length + A.size + Max(ref_gap, qry_gap)
                    + B.size + B.emp[2].length
    IN  /\ length >= al.minimum_length
        /\ penalty * al.den <= al.num * length

\* src/src/core/anchoring.rs, Anchor::create_checkpoint_to_rights, on the
\* anchor records of this model: record_position and query_position are
\* position, left_estimation and right_estimation are emp.  The loop over
\* the anchors right of left_anchor_index, from right_anchor_index on;
\* recorded holds the right anchors connected so far.  "continue" goes to
\* the next anchor, "break" ends the loop.
RECURSIVE checkpoint_to_rights_loop(_, _, _, _, _, _, _)
checkpoint_to_rights_loop(anchs, left_anchor_index, right_anchor_index, allowed_gap_between_query_position, penalties, cutoff, recorded) ==
    IF right_anchor_index >= Len(anchs) THEN recorded
    ELSE
        LET self == anchs[left_anchor_index + 1]
            right_anchor == anchs[right_anchor_index + 1]
            query_gap == right_anchor.position[2] - (self.position[2] + self.size)
            record_gap == right_anchor.position[1] - (self.position[1] + self.size)
            max_gap == Max(record_gap, query_gap)
            min_gap == Min(record_gap, query_gap)
            gap_count == max_gap - min_gap
            min_penalty == IF gap_count = 0 THEN 0
                           ELSE penalties.o + gap_count * penalties.e
            penalty == self.emp[1].penalty + right_anchor.emp[2].penalty
                        + min_penalty
            length == self.emp[1].length + self.size
                        + right_anchor.emp[2].length + max_gap
            can_connect ==
                /\ length >= cutoff.minimum_length
                /\ length > 0
                /\ penalty * cutoff.den <= cutoff.num * length
            next(rec) ==
                checkpoint_to_rights_loop(anchs, left_anchor_index,
                    right_anchor_index + 1, allowed_gap_between_query_position,
                    penalties, cutoff, rec)
        IN  IF query_gap < 0 THEN next(recorded)
            ELSE IF query_gap > allowed_gap_between_query_position THEN recorded
            ELSE IF record_gap < 0 THEN next(recorded)
            ELSE IF can_connect THEN next(recorded \cup {right_anchor_index})
            ELSE next(recorded)

create_checkpoint_to_rights(anchs, right_first_anchor_index, allowed_gap_between_query_position, penalties, cutoff) ==
    checkpoint_to_rights_loop(anchs, right_first_anchor_index - 1,
                              right_first_anchor_index,
                              allowed_gap_between_query_position,
                              penalties, cutoff, {})

\* Anchors::create_checkpoints_between_anchors: the anchors with the check
\* points the loop over right_first_anchor_index adds.
create_checkpoints_between_anchors(anchs, pattern_size, penalties, cutoff) ==
    LET allowed_gap_between_query_position ==
            pattern_size * PATTERN_INDEX_GAP_FOR_CHECK_POINTS
        rights(left) ==
            create_checkpoint_to_rights(anchs, left + 1,
                allowed_gap_between_query_position, penalties, cutoff)
    IN  [n \in 1..Len(anchs) |->
            [anchs[n] EXCEPT !.check_points =
                << SortedSeq({left \in 0..(n - 2) : (n - 1) \in rights(left)}),
                   IF n < Len(anchs) THEN SortedSeq(rights(n - 1)) ELSE <<>> >>]]

\* The three conditions decide the check points that
\* create_checkpoints_between_anchors gives the estimated anchors of the
\* group.
CoreCheckPointExactly ==
    group_new.pc = "check_points" =>
        LET al == group_new.aligner
            anchs == create_checkpoints_between_anchors(
                        group_new.anchors, al.kmer, al, al)
        IN  \A a \in 1..Len(anchs), b \in 1..Len(anchs) :
                (a # b /\ both_estimated(anchs[a], anchs[b])) =>
                    (PairRecorded(anchs, a - 1, b - 1)
                        <=> /\ StartsAfterEnd(anchs[a], anchs[b])
                            /\ QueryGapAllowed(anchs[a], anchs[b], al.kmer)
                            /\ EmpMeetsCutoff(anchs[a], anchs[b], al))

\* C19: in the group AnchorGroup::new returns, for every two anchors A and
\* B that kept their estimation, B is a right check point of A and A a left
\* check point of B exactly when B starts at or after the end of A on the
\* reference and on the query, the query gap between them is at most three
\* patterns, and the estimated penalty and length of the pair meet the
\* cutoff.
C19_CheckPointExactly ==
    group_new.pc = "some" =>
        \A a \in 1..Len(group_new.anchors), b \in 1..Len(group_new.anchors) :
            LET A == group_new.anchors[a]
                B == group_new.anchors[b]
            IN  (a # b /\ both_estimated(A, B)) =>
                    (PairRecorded(group_new.anchors, a - 1, b - 1)
                        <=> /\ StartsAfterEnd(A, B)
                            /\ QueryGapAllowed(A, B, group_new.aligner.kmer)
                            /\ EmpMeetsCutoff(A, B, group_new.aligner))

\* The same without the limit on the query gap, as can_be_connected tests.
CheckPointWithoutGapLimit ==
    group_new.pc = "some" =>
        \A a \in 1..Len(group_new.anchors), b \in 1..Len(group_new.anchors) :
            LET A == group_new.anchors[a]
                B == group_new.anchors[b]
            IN  (a # b /\ both_estimated(A, B)) =>
                    (PairRecorded(group_new.anchors, a - 1, b - 1)
                        <=> /\ StartsAfterEnd(A, B)
                            /\ EmpMeetsCutoff(A, B, group_new.aligner))

---------------------------------------------------------------------------
(* Aligner::perform_with_sequence as a function of its arguments: the set  *)
(* of outcomes of the call, one for each iteration order of the hash       *)
(* collections in get_unique_symbols.  An outcome is                       *)
(*   status      "none" (AnchorGroup::new returned None) | "done" | "panic"*)
(*   alignments  the set of <<operations, penalty>> returned               *)

RECURSIVE HindPass(_, _, _, _, _)
HindPass(anchs, current_index, text, qry, al) ==
    IF current_index >= Len(anchs) THEN anchs
    ELSE HindPass(AnchorAlignment(anchs, current_index, text, qry, al, "Hind"),
                  current_index + 1, text, qry, al)

RECURSIVE ForePass(_, _, _, _, _)
ForePass(anchs, current_index, text, qry, al) ==
    IF current_index < 0 THEN anchs
    ELSE ForePass(AnchorAlignment(anchs, current_index, text, qry, al, "Fore"),
                  current_index - 1, text, qry, al)

\* AnchorGroup::alignment.
GroupAlignment(anchs, text, qry, al) ==
    ForePass(HindPass(anchs, 0, text, qry, al), Len(anchs) - 1, text, qry, al)

\* AnchorGroup::get_result.
get_result(anchs, ref_len, qry_len, al, mode) ==
    LET panicked == [status |-> "panic", alignments |-> {}]
        outcome(evaluated, unique_anchors_index) ==
            LET res == {operations_and_penalty(evaluated, anchor_index,
                                               ref_len, qry_len) :
                            anchor_index \in unique_anchors_index}
            IN  IF \E r \in res : r.abort # ""
                THEN panicked
                ELSE [status |-> "done",
                      alignments |-> {<<r.operations, r.penalty>> : r \in res}]
    IN  IF \E n \in 1..Len(anchs) : get_penalty_and_length(anchs[n]).panic
        THEN {panicked}
        ELSE UNION {{outcome(evaluated, unique_anchors_index) :
                        unique_anchors_index \in
                            get_unique_symbols(evaluated,
                                ValidAnchorsSet(anchs, evaluated, al, mode))} :
                    evaluated \in {EvaluatedAnchors(anchs, al)}}

perform_with_sequence(text, qry, al, mode) ==
    UNION {IF ~group.some
           THEN {[status |-> "none", alignments |-> {}]}
           ELSE UNION {get_result(aligned, Len(text), Len(qry), al, mode) :
                          aligned \in {GroupAlignment(group.anchors, text, qry, al)}} :
           group \in {AnchorGroupNew(text, qry, al)}}

---------------------------------------------------------------------------
(* SpecMirror.  Two calls of perform_with_sequence with the same Aligner,  *)
(* the second on the reversed reference and the reversed query.  calls     *)
(* holds the arguments and, once a call is made, its outcome:              *)
(*   first, second   "pending", or the outcome of the call                 *)

MinMirrorLen == 5
MaxMirrorLen == 6

Pending == [status |-> "pending", alignments |-> {}]

InitMirror ==
    /\ \E r \in {s \in SeqsOfLen(Alphabet, MinMirrorLen, MaxMirrorLen) :
                       s[1] = RefFirst},
          q \in SeqsOfLen(Alphabet, MinMirrorLen, MaxMirrorLen),
          a \in AlignerArgs, mode \in BOOLEAN :
          calls = [ref_seq |-> r, qry_seq |-> q, aligner |-> AlignerNew(a),
                   get_minimum_penalty |-> mode,
                   first |-> Pending, second |-> Pending]
    /\ aligner = Unused /\ ref_seq = <<>> /\ qry_seq = <<>> /\ anchors = <<>>
    /\ pc = "unused" /\ idx = 0 /\ get_minimum_penalty = FALSE
    /\ result = {} /\ abort = ""
    /\ dwfa = Unused /\ finder = Unused /\ kmer_case = Unused
    /\ group_new = Unused

\* The call on the reference and the query.
CallForward ==
    /\ calls.first = Pending
    /\ \E outcome \in perform_with_sequence(calls.ref_seq, calls.qry_seq,
                          calls.aligner, calls.get_minimum_penalty) :
          calls' = [calls EXCEPT !.first = outcome]
    /\ UNCHANGED <<pipeline_vars, dwfa, finder, kmer_case, group_new>>

\* The call on the reversed reference and the reversed query.
CallReversed ==
    /\ calls.first # Pending
    /\ calls.second = Pending
    /\ \E outcome \in perform_with_sequence(Reverse(calls.ref_seq),
                          Reverse(calls.qry_seq), calls.aligner,
                          calls.get_minimum_penalty) :
          calls' = [calls EXCEPT !.second = outcome]
    /\ UNCHANGED <<pipeline_vars, dwfa, finder, kmer_case, group_new>>

NextMirror == CallForward \/ CallReversed

SpecMirror == InitMirror /\ [][NextMirror]_vars

\* An alignment with its operations reversed: the clips change ends and
\* with them the ranges are mirrored.
Mirrored(alignment) == <<Reverse(alignment[1]), alignment[2]>>

\* C15: the call on the reversed reference and the reversed query returns
\* the alignments of the call on the reference and the query, their
\* operations reversed, whatever the length of the query.
C15_ReverseSymmetry ==
    calls.second # Pending =>
        /\ calls.second.status = calls.first.status
        /\ calls.second.alignments
              = {Mirrored(alignment) : alignment \in calls.first.alignments}

---------------------------------------------------------------------------
(* SpecCutoffs.  Two calls of perform_with_sequence on the same reference  *)
(* and query with the same penalties: the first with the Aligner of a      *)
(* cutoff, the second with the Aligner of a tighter cutoff (calls.tight).  *)

\* The tighter cutoffs: minimum_length at least and score_per_length at
\* most those of AlignerArgs.  The pattern sizes derived are 2 and 3.
TightCutoffs ==
    { [num |-> 3, den |-> 16, minimum_length |-> 4],
      [num |-> 3, den |-> 16, minimum_length |-> 5] }

InitCutoffs ==
    /\ \E r \in {s \in SeqsOfLen(Alphabet, MinMirrorLen, MaxMirrorLen) :
                       s[1] = RefFirst},
          q \in SeqsOfLen(Alphabet, MinMirrorLen, MaxMirrorLen),
          a \in {b \in AlignerArgs : ~b.using_cached_wf},
          cutoff \in TightCutoffs, mode \in BOOLEAN :
          calls = [ref_seq |-> r, qry_seq |-> q, aligner |-> AlignerNew(a),
                   tight |-> AlignerNew(
                      [a EXCEPT !.num = cutoff.num, !.den = cutoff.den,
                                !.minimum_length = cutoff.minimum_length]),
                   get_minimum_penalty |-> mode,
                   first |-> Pending, second |-> Pending]
    /\ aligner = Unused /\ ref_seq = <<>> /\ qry_seq = <<>> /\ anchors = <<>>
    /\ pc = "unused" /\ idx = 0 /\ get_minimum_penalty = FALSE
    /\ result = {} /\ abort = ""
    /\ dwfa = Unused /\ finder = Unused /\ kmer_case = Unused
    /\ group_new = Unused

\* The call with the tighter cutoff.
CallTight ==
    /\ calls.first # Pending
    /\ calls.second = Pending
    /\ \E outcome \in perform_with_sequence(calls.ref_seq, calls.qry_seq,
                          calls.tight, calls.get_minimum_penalty) :
          calls' = [calls EXCEPT !.second = outcome]
    /\ UNCHANGED <<pipeline_vars, dwfa, finder, kmer_case, group_new>>

NextCutoffs == CallForward \/ CallTight

SpecCutoffs == InitCutoffs /\ [][NextCutoffs]_vars

\* C16: every alignment returned under the tighter cutoff is returned under
\* the cutoff.
C16_CutoffMonotone ==
    calls.second # Pending =>
        calls.second.alignments \subseteq calls.first.alignments

=============================================================================
